---- MODULE Spec2Model ----
(***************************************************************************)
(* Brisa: an SMTP receiving gateway that runs middleware chains over the   *)
(* stages of an SMTP conversation.  This module models                     *)
(*   - Action bit flags and the IgnoreFlags skip test      (middleware.go) *)
(*   - MiddlewareChain.Execute, panic-safe                 (middleware.go) *)
(*   - Router, Router.Use, Router.Clone                         (brisa.go) *)
(*   - Brisa.New / UpdateRouter / NewSession                    (brisa.go) *)
(*   - Session.Mail / Rcpt / Data / Reset / Logout / execute    (brisa.go) *)
(*   - Context, its reset operations and the context pool     (context.go) *)
(***************************************************************************)
EXTENDS Integers, Sequences, FiniteSets, TLC

(***************************************************************************)
(* Bounds of the model.                                                    *)
(***************************************************************************)
\* Longest chain drawn as an input of MiddlewareChain.Execute.
MaxLen == 2
\* Most units a Router is given.
MaxUnits == 2
\* Most UpdateRouter calls.
MaxPublish == 2
\* Most conversations (NewSession calls).
MaxSessions == 1
\* Most recipients declared in one mail transaction.
MaxRcpt == 2

(***************************************************************************)
(* Action (middleware.go:13-24) and IgnoreFlags (middleware.go:26-35).     *)
(***************************************************************************)
Pass == 1
Reject == 2
Deliver == 4
Quarantine == 8
\* Discard is used by Session.Data (brisa.go:230); its declaration is the
\* next single-bit value of the Action iota block.
Discard == 16

\* Go's bitwise AND and OR on non-negative ints.
RECURSIVE BitAnd(_, _)
BitAnd(a, b) ==
    IF a = 0 \/ b = 0 THEN 0
    ELSE (a % 2) * (b % 2) + 2 * BitAnd(a \div 2, b \div 2)

RECURSIVE BitOr(_, _)
BitOr(a, b) ==
    IF a = 0 THEN b
    ELSE IF b = 0 THEN a
    ELSE (IF a % 2 = 1 \/ b % 2 = 1 THEN 1 ELSE 0)
         + 2 * BitOr(a \div 2, b \div 2)

IgnoreDeliver == Deliver
IgnoreQuarantine == Quarantine
DefaultIgnoreFlags_AllDispositions ==
    BitOr(BitOr(IgnoreDeliver, IgnoreQuarantine), Discard)

DefaultIgnoreFlags == BitOr(IgnoreDeliver, IgnoreQuarantine)

(***************************************************************************)
(* Handlers.  A Handler is a Go func(ctx) Action; the model knows a        *)
(* handler by what one invocation does: return an Action value, or panic.  *)
(* "panicSMTP" panics with an *smtp.SMTPError as the panic value.          *)
(***************************************************************************)
Nil == "nil"

(***************************************************************************)
(* smtp.SMTPError values (errors.go:5-38).                                 *)
(***************************************************************************)
SMTPError(code, enhanced) == [Code |-> code, EnhancedCode |-> enhanced]

\* A nil error as a stage callback returns it.
NilSMTP == SMTPError(0, <<0, 0, 0>>)
ErrRejectedByPolicy == SMTPError(554, <<5, 7, 1>>)
ErrInternalServer == SMTPError(451, <<4, 3, 0>>)
ErrTryAgainLater == SMTPError(421, <<4, 3, 2>>)
ErrInvalidAction == SMTPError(554, <<5, 3, 5>>)

\* A nil error as Execute returns it.  An error carries its message, the
\* panic value formatted into it, and the *smtp.SMTPError errors.As finds
\* in its chain (NilSMTP: none).
NoError == [msg |-> Nil, value |-> Nil, wraps |-> NilSMTP]

ReturningHandlers ==
    {"Pass", "Reject", "Deliver", "Quarantine", "Discard", "Zero", "Both",
     "RejectBadRcpt", "ReadAll", "ReadSome", "Set"}
PanickingHandlers == {"panic", "panicSMTP"}
Handlers == ReturningHandlers \cup PanickingHandlers

Panics(h) == h \in PanickingHandlers

\* "RejectBadRcpt" is a recipient validator: it reads the recipient declared
\* last (ctx.To) and rejects the one it does not accept.
Returns(h, ctx) ==
    CASE h = "Pass" -> Pass
      [] h = "Reject" -> Reject
      [] h = "Deliver" -> Deliver
      [] h = "Quarantine" -> Quarantine
      [] h = "Discard" -> Discard
      [] h = "Zero" -> 0
      [] h = "Both" -> BitOr(Deliver, Quarantine)
      [] h = "RejectBadRcpt" ->
            IF ctx.To # << >> /\ ctx.To[Len(ctx.To)] = "bad"
            THEN Reject ELSE Pass
      [] h \in {"ReadAll", "ReadSome"} -> Pass
      [] h = "Set" -> Pass

\* "ReadAll" and "ReadSome" are body handlers: they read ctx.Reader, to its
\* end or in part, and return Pass.  What a handler leaves of a stream:
Reads(h, reader) ==
    IF reader \in {"unread", "partial"}
    THEN CASE h = "ReadAll" -> "drained"
           [] h = "ReadSome" -> "partial"
           [] OTHER -> reader
    ELSE reader

\* "Set" is a handler that calls ctx.Set("k", v) (context.go:51-58) and
\* returns Pass.  The value store is the set of the keys Get finds: empty
\* for a nil map (context.go:65-67) as for an empty one.
Writes(h, keys) == IF h = "Set" THEN keys \cup {"k"} ELSE keys

\* The value handed to panic() by a panicking handler.
PanicValue(h) == IF h = "panicSMTP" THEN "ErrTryAgainLater" ELSE "string"

Middleware(h, flags) == [Handler |-> h, IgnoreFlags |-> flags]

(***************************************************************************)
(* Context (context.go:12-26, with To a list as brisa.go:192 appends to    *)
(* it).  Reader is "nil", "unread" (a body stream not read to its end) or  *)
(* "drained".                                                              *)
(***************************************************************************)
\* context.go:79-83  a Context as new(Context) makes it and NewContext
\* hands it out: zero fields, Action = Pass.
NewCtx == [Session |-> 0, Logger |-> Nil, Action |-> Pass,
           From |-> "", FromOptions |-> Nil, To |-> << >>,
           ToOptions |-> << >>, Reader |-> Nil, keys |-> {}]

\* context.go:41-47  Context.ResetMailFields
ResetMailFields_ClearStatus(c) ==
    [c EXCEPT !.Reader = Nil, !.From = "", !.To = << >>, !.FromOptions = Nil,
              !.ToOptions = << >>, !.Action = Pass]

ResetMailFields_KeepRecipients(c) ==
    [c EXCEPT !.Reader = Nil, !.From = "", !.FromOptions = Nil]

ResetMailFields(c) ==
    [c EXCEPT !.Reader = Nil, !.From = "", !.To = << >>,
              !.FromOptions = Nil, !.ToOptions = << >>]

\* context.go:29-38  Context.Reset
ResetCtx_KeepStore(c) ==
    ResetMailFields([c EXCEPT !.Session = 0, !.Logger = Nil, !.Action = Pass])

ResetCtx(c) ==
    ResetMailFields([c EXCEPT !.Session = 0, !.Logger = Nil, !.Action = Pass,
                              !.keys = {}])

(***************************************************************************)
(* MiddlewareChain.Execute (middleware.go:156-177).                        *)
(* The result carries the returned (action, err), the Context status after *)
(* the call, whether a panic left Execute unrecovered, and the log of the  *)
(* units the loop reached: position, status before, invoked?, status after.*)
(***************************************************************************)
\* middleware.go:167  (m.IgnoreFlags & ctx.Status) != 0
Skipped_Equal(m, status) == m.IgnoreFlags = status

Skipped_PassNeverSkips(m, status) ==
    m.IgnoreFlags # Pass /\ BitAnd(m.IgnoreFlags, status) # 0

Skipped(m, status) == BitAnd(m.IgnoreFlags, status) # 0

\* middleware.go:160  fmt.Errorf("panic recovered ...: %v", r): the panic
\* value is formatted into the message, never wrapped.
PanicError(r) == [msg |-> "panic recovered during middleware execution",
                  value |-> r, wraps |-> NilSMTP]

\* middleware.go:157-163  the deferred recover()
Recovered_None(r, status, steps) ==
    [action |-> 0, err |-> NoError, status |-> status, unwound |-> TRUE,
     steps |-> steps]

Recovered(r, status, steps) ==
    [action |-> Reject, err |-> PanicError(r), status |-> status,
     unwound |-> FALSE, steps |-> steps]

\* middleware.go:172-174  Reject is a terminal state
IsTerminal_Never(a) == FALSE

IsTerminal(a) == a = Reject

\* middleware.go:167  the skip test reads ctx.Status at each unit: the
\* status as the units before it have left it, not the status at entry.
Running_AtEntry(ctx, status) == ctx.Action

Running(ctx, status) == status

\* middleware.go:171  ctx.Status = m.Handler(ctx): the handler's return
\* value replaces the status, whatever the status was.
Overwritten_KeepDisposition(status, a) ==
    IF status \in {Deliver, Quarantine, Discard} /\ a # Reject
    THEN status ELSE a

Overwritten(status, a) == a

Step(i, before, invoked, after) ==
    [idx |-> i, before |-> before, invoked |-> invoked, after |-> after]

\* middleware.go:176  return ctx.Status, nil, once the loop is over
Completed_Pass(status, steps) ==
    [action |-> Pass, err |-> NoError, status |-> status, unwound |-> FALSE,
     steps |-> steps]

Completed(status, steps) ==
    [action |-> status, err |-> NoError, status |-> status,
     unwound |-> FALSE, steps |-> steps]

RECURSIVE ExecuteFrom(_, _, _, _, _)
ExecuteFrom(mc, ctx, i, status, steps) ==
    IF i > Len(mc)
    THEN Completed(status, steps)
    ELSE LET m == mc[i] IN
         IF Skipped(m, Running(ctx, status))
         THEN ExecuteFrom(mc, ctx, i + 1, status,
                          Append(steps, Step(i, status, FALSE, status)))
         ELSE IF Panics(m.Handler)
         THEN Recovered(PanicValue(m.Handler), status,
                        Append(steps, Step(i, status, TRUE, status)))
         ELSE LET a == Overwritten(status, Returns(m.Handler, ctx))
                  log == Append(steps, Step(i, status, TRUE, a))
              IN IF IsTerminal(a)
                 THEN [action |-> a, err |-> NoError, status |-> a,
                       unwound |-> FALSE, steps |-> log]
                 ELSE ExecuteFrom(mc, ctx, i + 1, a, log)

\* ctx.Status of middleware.go is the field brisa.go and context.go name
\* ctx.Action: the one status field of the Context.
Execute(mc, ctx) == ExecuteFrom(mc, ctx, 1, ctx.Action, << >>)

\* The named results of Execute before the call assigns them.
NoResult == [action |-> 0, err |-> NoError, status |-> 0, unwound |-> FALSE,
             steps |-> << >>]

(***************************************************************************)
(* ChainType (brisa.go:16-28) and Router (brisa.go:35-98).  A Router is a  *)
(* Go map: here a function whose domain is the set of bound chain types.   *)
(***************************************************************************)
ChainConn == "conn"
ChainMailFrom == "mail_from"
ChainRcptTo == "rcpt_to"
ChainData == "data"
ChainDeliver == "deliver"
ChainQuarantine == "quarantine"
ChainReject == "reject"
ChainDiscard == "discard"

ChainTypes == {ChainConn, ChainMailFrom, ChainRcptTo, ChainData,
               ChainDeliver, ChainQuarantine, ChainReject, ChainDiscard}

\* &Router{}
EmptyRouter == [c \in {} |-> << >>]

\* brisa.go:40  (*r)[chainName] = append((*r)[chainName], *m); a missing key
\* reads as the nil slice.
UseOne_Prepend(R, chainName, m) ==
    [c \in DOMAIN R \cup {chainName} |->
        IF c = chainName
        THEN <<m>> \o (IF chainName \in DOMAIN R THEN R[chainName] ELSE << >>)
        ELSE R[c]]

UseOne_DefaultMask(R, chainName, m) ==
    [c \in DOMAIN R \cup {chainName} |->
        IF c = chainName
        THEN Append(IF chainName \in DOMAIN R THEN R[chainName] ELSE << >>,
                    [m EXCEPT !.IgnoreFlags =
                                  IF @ = 0 THEN DefaultIgnoreFlags ELSE @])
        ELSE R[c]]

UseOne(R, chainName, m) ==
    [c \in DOMAIN R \cup {chainName} |->
        IF c = chainName
        THEN Append(IF chainName \in DOMAIN R THEN R[chainName] ELSE << >>, m)
        ELSE R[c]]

\* brisa.go:38-43  Router.Use(chainName, middlewares...)
RECURSIVE Use(_, _, _)
Use(R, chainName, ms) ==
    IF ms = << >> THEN R
    ELSE Use(UseOne(R, chainName, Head(ms)), chainName, Tail(ms))

\* brisa.go:89-98  Router.Clone: a new map, and per chain a new slice filled
\* element by element.
Clone(R) == [c \in DOMAIN R |-> [i \in 1..Len(R[c]) |-> R[c][i]]]

\* brisa.go:35  Router is a map: the Router R with chainName bound to chain,
\* as a map literal or an index assignment binds it.
Bind(R, chainName, chain) ==
    [c \in DOMAIN R \cup {chainName} |->
        IF c = chainName THEN chain ELSE R[c]]

\* Number of units a Router holds.
RECURSIVE UnitsIn(_, _)
UnitsIn(R, cs) ==
    IF cs = {} THEN 0
    ELSE LET c == CHOOSE x \in cs : TRUE
         IN Len(R[c]) + UnitsIn(R, cs \ {c})

Size(R) == UnitsIn(R, DOMAIN R)

(***************************************************************************)
(* State.                                                                  *)
(***************************************************************************)
VARIABLES
    mc,     \* Execute under test: the chain (receiver of Execute)
    st,     \* Execute under test: ctx.Status
    st0,    \* Execute under test: ctx.Status when Execute was called
    epc,    \* Execute under test: "call" before the call, "done" after
    ret,    \* Execute under test: what the call returned
    heap,   \* Router objects by address: heap[a] is the map at address a
    slot,   \* Brisa.router: the address the atomic pointer holds
    table,  \* the address of the caller's own Router
    pub,    \* per caller goroutine: its UpdateRouter call in flight
    pubLog, \* history: the stores into the slot, in order: the address
            \* stored, and the caller's Router as UpdateRouter was given it
    retMax, \* history: the latest store made by a returned UpdateRouter
    sess,   \* Session objects, by number of the conversation
    ctxs,   \* Context objects by address
    pool,   \* contextPool: the addresses of the Contexts resting in it
    last,   \* history: the callback that returned last
    chains, \* the caller's MiddlewareChains: its chains map
    reg,    \* history: the registration call made last
    maps,   \* Routers in memory, by address: chain type -> slice header
    arrs,   \* the backing arrays of their slices, by address
    abs,    \* per Router in memory: the chains it is to hold, as values
    observers, \* Brisa.observers: the observers New was given, in order
    registry,  \* MiddlewareFactory.registry: name -> constructor
    factories, \* Registry.factories: name -> constructor
    mu,        \* MiddlewareFactory.mu: the writer and the readers holding it
    calls,     \* per goroutine: its call on a factory, in flight or ended
    ncalls,    \* history: the number of factory calls made
    cmu,       \* Context.mu of one Context: its writer and its readers
    acc,       \* per goroutine: its access to that Context, in flight
    clife      \* that Context's life: its stage and the accesses made

execVars == <<mc, st, st0, epc, ret>>
gwVars == <<heap, slot, table, pub, pubLog, retMax, observers>>
sessVars == <<sess, ctxs, pool, last>>
regVars == <<chains, reg>>
memVars == <<maps, arrs, abs>>
facVars == <<registry, factories, mu, calls, ncalls>>
lockVars == <<cmu, acc, clife>>
callerVars == <<chains, reg, maps, arrs, abs, registry, factories, mu, calls,
                ncalls, cmu, acc, clife>>
vars == <<mc, st, st0, epc, ret, heap, slot, table, pub, pubLog, retMax,
          sess, ctxs, pool, last, chains, reg, maps, arrs, abs, observers,
          registry, factories, mu, calls, ncalls, cmu, acc, clife>>

(***************************************************************************)
(* Session.execute (brisa.go:269-317) and Session.Data (brisa.go:198-243)  *)
(* as functions of the Context they are given.  A result carries the       *)
(* Context afterwards, the error returned, and the chain executions made:  *)
(* chain type, address of the Router it was looked up in, Context before,  *)
(* and what Execute returned.                                              *)
(***************************************************************************)
Run(chainType, rid, before, res, hooked) ==
    [chain |-> chainType, router |-> rid, before |-> before, res |-> res,
     hooked |-> hooked]

\* What the observers receive (part_002:8-23), and the units the loop of
\* Execute reaches, as the events of one callback in the order they happen.
Event(kind, o, chainType, idx) ==
    [kind |-> kind, o |-> o, chain |-> chainType, idx |-> idx]

\* brisa.go:151-153, 259-261  OnSessionStart, OnSessionEnd, per observer
SessionHook(obs, kind) == [i \in 1..Len(obs) |-> Event(kind, obs[i], Nil, 0)]

\* brisa.go:276-278  OnChainStart, per observer
ChainStart(obs, run) ==
    [i \in 1..Len(obs) |-> Event("chain-start", obs[i], run.chain, 0)]

\* brisa.go:284-286  OnChainEnd, per observer, whatever Execute returned
ChainEnd_OnSuccess(obs, run) ==
    IF run.res.err # NoError \/ run.res.action = Reject
    THEN << >>
    ELSE [i \in 1..Len(obs) |-> Event("chain-end", obs[i], run.chain, 0)]

ChainEnd(obs, run) ==
    [i \in 1..Len(obs) |-> Event("chain-end", obs[i], run.chain, 0)]

\* middleware.go:165  the units the loop reaches, in order
UnitEvents(run) ==
    [k \in 1..Len(run.res.steps) |->
        Event("unit", Nil, run.chain, run.res.steps[k].idx)]

\* brisa.go:276-286 around chain.Execute; brisa.go:294-295 for the reject
\* chain, which execute runs with no hook.
RunEvents(obs, run) ==
    IF run.hooked
    THEN ChainStart(obs, run) \o UnitEvents(run) \o ChainEnd(obs, run)
    ELSE UnitEvents(run)

RECURSIVE Trace(_, _)
Trace(obs, runs) ==
    IF runs = << >> THEN << >>
    ELSE RunEvents(obs, Head(runs)) \o Trace(obs, Tail(runs))

\* brisa.go:300-313  which SMTP error a failed chain maps to
Classify_Internal(err) == ErrInternalServer

Classify(err) ==
    IF err # NoError
    THEN IF err.wraps # NilSMTP THEN err.wraps ELSE ErrInternalServer
    ELSE ErrRejectedByPolicy

\* brisa.go:295-301  the reject chain's error is logged; err of the stage
\* chain alone decides what is returned.
Deciding_RejectChain(res, rres) ==
    IF rres.err # NoError THEN rres.err ELSE res.err

Deciding(res, rres) == res.err

\* What the units a chain execution invoked have left of ctx.Reader.
RECURSIVE ReaderAfter(_, _, _, _)
ReaderAfter(chain, steps, k, reader) ==
    IF k > Len(steps) THEN reader
    ELSE ReaderAfter(chain, steps, k + 1,
                     IF steps[k].invoked
                     THEN Reads(chain[steps[k].idx].Handler, reader)
                     ELSE reader)

\* What the units a chain execution invoked have left in the value store.
RECURSIVE KeysAfter(_, _, _, _)
KeysAfter(chain, steps, k, keys) ==
    IF k > Len(steps) THEN keys
    ELSE KeysAfter(chain, steps, k + 1,
                   IF steps[k].invoked
                   THEN Writes(chain[steps[k].idx].Handler, keys)
                   ELSE keys)

\* brisa.go:294-298  rejectChain.Execute(s.ctx), called on the chain
\* itself and not through s.execute: whatever it returns is logged, and the
\* reject chain is not executed for it again.
RejectRuns_Again(rid, ctx2, rres) ==
    IF rres.err # NoError \/ rres.action = Reject
    THEN <<Run(ChainReject, rid, ctx2, rres, FALSE),
           Run(ChainReject, rid, [ctx2 EXCEPT !.Action = rres.status], rres,
               FALSE)>>
    ELSE <<Run(ChainReject, rid, ctx2, rres, FALSE)>>

RejectRuns(rid, ctx2, rres) == <<Run(ChainReject, rid, ctx2, rres, FALSE)>>

executeIn(R, rid, ctx, chainType) ==
    IF chainType \notin DOMAIN R
    THEN [ctx |-> ctx, err |-> NilSMTP, runs |-> << >>]
    ELSE LET res == Execute(R[chainType], ctx)
             ctx1 == [ctx EXCEPT !.Action = res.status,
                                 !.Reader = ReaderAfter(R[chainType],
                                                        res.steps, 1, @),
                                 !.keys = KeysAfter(R[chainType],
                                                    res.steps, 1, @)]
             run1 == Run(chainType, rid, ctx, res, TRUE)
         IN IF res.err # NoError \/ res.action = Reject
            THEN LET ctx2 == [ctx1 EXCEPT !.Action = Reject] IN
                 IF ChainReject \in DOMAIN R
                 THEN LET rres == Execute(R[ChainReject], ctx2) IN
                      [ctx |-> [ctx2 EXCEPT !.Action = rres.status],
                       err |-> Classify(Deciding(res, rres)),
                       runs |-> <<run1>> \o RejectRuns(rid, ctx2, rres)]
                 ELSE [ctx |-> ctx2, err |-> Classify(res.err),
                       runs |-> <<run1>>]
            ELSE [ctx |-> ctx1, err |-> NilSMTP, runs |-> <<run1>>]

\* brisa.go:215-217  an undecided body stage is an implicit delivery
Coerce_None(a) == a

Coerce(a) == IF a = Pass THEN Deliver ELSE a

\* brisa.go:219-240  the disposition chain of a status, Nil for none
Disposition_Swapped(a) ==
    CASE a = Deliver -> ChainQuarantine
      [] a = Quarantine -> ChainDeliver
      [] a = Discard -> ChainDiscard
      [] OTHER -> Nil

Disposition(a) ==
    CASE a = Deliver -> ChainDeliver
      [] a = Quarantine -> ChainQuarantine
      [] a = Discard -> ChainDiscard
      [] OTHER -> Nil

\* brisa.go:200-205  the deferred io.Copy(io.Discard, s.ctx.Reader)
Drain_None(r) == r

Drain(r) == [r EXCEPT !.ctx.Reader = "drained"]

\* brisa.go:237-239  the default case of the switch on s.ctx.Action
SwitchDefault_Silent == NilSMTP

SwitchDefault == ErrInvalidAction

\* brisa.go:221-236  the error of the deliver or quarantine chain is
\* returned, that of the discard chain is logged.
Propagated_All(d, err) == err

Propagated(d, err) == IF d = ChainDiscard THEN NilSMTP ELSE err

DataIn(R, rid, ctx0) ==
    LET ctx == [ctx0 EXCEPT !.Reader = "unread"]
        e1 == executeIn(R, rid, ctx, ChainData)
    IN IF e1.err # NilSMTP THEN Drain(e1)
       ELSE LET ctx1 == [e1.ctx EXCEPT !.Action = Coerce(@)]
                d == Disposition(ctx1.Action)
            IN IF d = Nil
               THEN Drain([ctx |-> ctx1, err |-> SwitchDefault,
                           runs |-> e1.runs])
               ELSE LET e2 == executeIn(R, rid, ctx1, d) IN
                    Drain([ctx |-> e2.ctx,
                           err |-> Propagated(d, e2.err),
                           runs |-> e1.runs \o e2.runs])

\* brisa.go:270, 294  (*s.router)[chainType]: the map at the address held
execute(rid, ctx, chainType) == executeIn(heap[rid], rid, ctx, chainType)

DataOf(rid, ctx) == DataIn(heap[rid], rid, ctx)

(***************************************************************************)
(* The Gateway: Brisa.New, Brisa.UpdateRouter, and the caller's Router.    *)
(***************************************************************************)
\* The caller's goroutines that may call UpdateRouter.
Publishers == {"p1", "p2"}

NoSession ==
    [phase |-> "none", ctx |-> 0, router |-> 0, fromOK |-> FALSE,
     rcptOK |-> FALSE, beginRet |-> 0, loadVer |-> 0, snapshot |-> EmptyRouter,
     accepted |-> << >>]

NoCallback == [s |-> 0, op |-> "none", pre |-> NewCtx, err |-> NilSMTP,
               runs |-> << >>, hooks |-> << >>]

IdlePub == [pc |-> "idle", arg |-> 0, given |-> EmptyRouter, ver |-> 0]

\* brisa.go:108-121  New: the slot holds &Router{} (address 1); the caller
\* has made a Router of its own (address 2).
GatewayInit ==
    /\ heap = <<EmptyRouter, EmptyRouter>>
    /\ slot = 1
    /\ table = 2
    /\ pub = [p \in Publishers |-> IdlePub]
    /\ pubLog = << >>
    /\ retMax = 0
    /\ observers = << >>

SessionsInit ==
    /\ sess = [s \in 1..MaxSessions |-> NoSession]
    /\ ctxs = << >>
    /\ pool = {}
    /\ last = NoCallback

\* No registration call has been made; NewMiddlewareChains
\* (middleware.go:189-193) has made an empty chains map.
NoRegistration == [via |-> "none", chainName |-> Nil, given |-> << >>,
                   prior |-> << >>]

RegIdle ==
    /\ chains = EmptyRouter
    /\ reg = NoRegistration

\* part_001:91  originalRouter := &Router{}: one Router in memory, empty.
MemIdle ==
    /\ maps = <<EmptyRouter>>
    /\ arrs = << >>
    /\ abs = <<EmptyRouter>>

\* make(map[string]MiddlewareFactoryFunc)
EmptyRegistry == [n \in {} |-> Nil]

\* Goroutines of the caller that use the factories.
Goroutines == {"g1", "g2"}

\* middleware.go:195-200  the unit a constructor returns; a nil *Middleware
NoUnit == [Handler |-> Nil, IgnoreFlags |-> 0]

NoOutcome == [unit |-> NoUnit, err |-> Nil, panicked |-> FALSE]

NoConfig == [type |-> "absent", value |-> 0]

NoCall == [op |-> "none", name |-> Nil, ctor |-> Nil, config |-> NoConfig,
           pc |-> "idle", fresh |-> FALSE, before |-> EmptyRegistry,
           after |-> EmptyRegistry, res |-> NoOutcome]

\* middleware.go:62-70 NewMiddlewareFactory, part_008:17-21 NewRegistry
FactoryIdle ==
    /\ registry = EmptyRegistry
    /\ factories = EmptyRegistry
    /\ mu = [w |-> Nil, r |-> {}]
    /\ calls = [g \in Goroutines |-> NoCall]
    /\ ncalls = 0

\* The goroutine of the conversation, and one of the instrumentation that
\* was handed the Context (part_002:8-23) and reads it on its own.
Threads == {"session", "observer"}

NoAccess == [op |-> "none", pc |-> "idle", value |-> 0, seen |-> 0]

\* No Context is being followed.
LockIdle ==
    /\ cmu = [w |-> Nil, r |-> {}]
    /\ acc = [t \in Threads |-> NoAccess]
    /\ clife = [stage |-> "none", n |-> 0]

ExecIdle ==
    /\ mc = << >>
    /\ st = Pass
    /\ st0 = Pass
    /\ epc = "idle"
    /\ ret = NoResult

\* brisa.go:38-43  router.Use(chainName, ms...) on the caller's own Router
UseCall(chainName, ms) ==
    /\ Size(heap[table]) + Len(ms) <= MaxUnits
    /\ heap' = [heap EXCEPT ![table] = Use(@, chainName, ms)]
    /\ UNCHANGED <<slot, table, pub, pubLog, retMax, observers>>
    /\ UNCHANGED sessVars
    /\ UNCHANGED execVars
    /\ UNCHANGED chains
    /\ UNCHANGED memVars
    /\ UNCHANGED facVars
    /\ UNCHANGED lockVars

\* The caller appends one unit to a chain of its own Router: router.Use(c, m).
CallerUse(bindings) ==
    /\ \E b \in bindings : UseCall(b[1], <<b[2]>>)
    /\ UNCHANGED reg

\* brisa.go:130  what UpdateRouter hands to Store: router.Clone(), not router
Published_Live(router, clone) == router

Published(router, clone) == clone

\* brisa.go:130  UpdateRouter(router), first step: router.Clone()
UpdateRouterClone(p) ==
    /\ pub[p].pc = "idle"
    /\ Len(heap) - 2 < MaxPublish
    /\ heap' = Append(heap, Clone(heap[table]))
    /\ pub' = [pub EXCEPT ![p] = [pc |-> "cloned",
                                   arg |-> Published(table, Len(heap) + 1),
                                   given |-> heap[table], ver |-> 0]]
    /\ UNCHANGED <<slot, table, pubLog, retMax, observers>>
    /\ UNCHANGED sessVars
    /\ UNCHANGED execVars
    /\ UNCHANGED callerVars

\* brisa.go:130  UpdateRouter, second step: b.router.Store(...)
UpdateRouterStore(p) ==
    /\ pub[p].pc = "cloned"
    /\ slot' = pub[p].arg
    /\ pubLog' = Append(pubLog, [addr |-> pub[p].arg, given |-> pub[p].given])
    /\ pub' = [pub EXCEPT ![p].pc = "stored", ![p].ver = Len(pubLog')]
    /\ UNCHANGED <<heap, table, retMax, observers>>
    /\ UNCHANGED sessVars
    /\ UNCHANGED execVars
    /\ UNCHANGED callerVars

\* brisa.go:131-132  UpdateRouter logs and returns
UpdateRouterReturn(p) ==
    /\ pub[p].pc = "stored"
    /\ retMax' = IF pub[p].ver > retMax THEN pub[p].ver ELSE retMax
    /\ pub' = [pub EXCEPT ![p] = IdlePub]
    /\ UNCHANGED <<heap, slot, table, pubLog, observers>>
    /\ UNCHANGED sessVars
    /\ UNCHANGED execVars
    /\ UNCHANGED callerVars

(***************************************************************************)
(* Sessions: Brisa.NewSession and the callbacks of a Session.              *)
(***************************************************************************)
\* The address store number v put into the slot; store 0 is that of New.
AddrOf(v) == IF v = 0 THEN 1 ELSE pubLog[v].addr

\* brisa.go:144  router: b.router.Load()
Load_Stale == IF pubLog = << >> THEN slot ELSE AddrOf(Len(pubLog) - 1)

Load == slot

\* brisa.go:270  the Router a callback of session s looks its chains up in
RouterOf_Slot(s) == slot

RouterOf(s) == sess[s].router

\* brisa.go:155-160  NewSession returns the Session only if err is nil
SessionReturned_Always(err) == TRUE

SessionReturned(err) == err = NilSMTP

Returned(s, op, pre, r) ==
    [s |-> s, op |-> op, pre |-> pre, err |-> r.err, runs |-> r.runs,
     hooks |-> IF op = "NewSession"
               THEN SessionHook(observers, "session-start")
                    \o Trace(observers, r.runs)
               ELSE Trace(observers, r.runs)]

\* context.go:80  contextPool.Get(): the Context handed out leaves the pool
Got_Kept(p, c) == p

Got(p, c) == p \ {c}

\* brisa.go:136-138 and context.go:79-83  NewSession, first half: the
\* Context comes from the pool or is allocated, and has Action = Pass.
NewSessionBegin(s) ==
    /\ sess[s].phase = "none"
    /\ \A t \in 1..(s - 1) : sess[t].phase # "none"
    /\ \E c \in pool \cup {Len(ctxs) + 1} :
          /\ ctxs' = IF c \in pool
                      THEN [ctxs EXCEPT ![c].Action = Pass,
                                        ![c].Logger = "session"]
                      ELSE Append(ctxs, [NewCtx EXCEPT !.Logger = "session"])
          /\ pool' = Got(pool, c)
          /\ sess' = [sess EXCEPT ![s] = [NoSession EXCEPT
                         !.phase = "begun", !.ctx = c, !.beginRet = retMax]]
    /\ UNCHANGED last
    /\ UNCHANGED gwVars
    /\ UNCHANGED execVars
    /\ UNCHANGED callerVars

\* brisa.go:140-160  NewSession, second half: the Session is built around
\* b.router.Load(), and the conn chain decides whether it is returned.
NewSessionLoad(s) ==
    /\ sess[s].phase = "begun"
    /\ LET c == sess[s].ctx
           rid == Load
           pre == [ctxs[c] EXCEPT !.Session = s]
           r == execute(rid, pre, ChainConn)
       IN /\ ctxs' = [ctxs EXCEPT ![c] = r.ctx]
          /\ sess' = [sess EXCEPT ![s].router = rid,
                                   ![s].snapshot = heap[rid],
                                   ![s].loadVer = Len(pubLog),
                                   ![s].phase = IF SessionReturned(r.err)
                                                THEN "open" ELSE "refused"]
          /\ last' = Returned(s, "NewSession", pre, r)
    /\ UNCHANGED pool
    /\ UNCHANGED gwVars
    /\ UNCHANGED execVars
    /\ UNCHANGED callerVars

\* brisa.go:252-255  Session.resetMailTransaction
resetMailTransaction_None(c) == [c EXCEPT !.Logger = "session"]

resetMailTransaction(c) == [ResetMailFields(c) EXCEPT !.Logger = "session"]

\* brisa.go:178-188  Session.Mail
Mail(s, from) ==
    /\ sess[s].phase = "open"
    /\ LET c == sess[s].ctx
           pre == [resetMailTransaction(ctxs[c]) EXCEPT
                       !.Logger = "mail", !.From = from,
                       !.FromOptions = "opts"]
           r == execute(RouterOf(s), pre, ChainMailFrom)
       IN /\ ctxs' = [ctxs EXCEPT ![c] = r.ctx]
          /\ sess' = [sess EXCEPT ![s].fromOK = (r.err = NilSMTP),
                                   ![s].rcptOK = FALSE,
                                   ![s].accepted = << >>]
          /\ last' = Returned(s, "Mail", pre, r)
    /\ UNCHANGED pool
    /\ UNCHANGED gwVars
    /\ UNCHANGED execVars
    /\ UNCHANGED callerVars

\* brisa.go:191-195  Session.Rcpt
Rcpt(s, to) ==
    /\ sess[s].phase = "open"
    /\ sess[s].fromOK
    /\ Len(ctxs[sess[s].ctx].To) < MaxRcpt
    /\ LET c == sess[s].ctx
           pre == [ctxs[c] EXCEPT !.To = Append(@, to),
                                  !.ToOptions = Append(@, "opts")]
           r == execute(RouterOf(s), pre, ChainRcptTo)
       IN /\ ctxs' = [ctxs EXCEPT ![c] = r.ctx]
          /\ sess' = [sess EXCEPT ![s].rcptOK = @ \/ (r.err = NilSMTP),
                                   ![s].accepted = IF r.err = NilSMTP
                                                   THEN Append(@, to) ELSE @]
          /\ last' = Returned(s, "Rcpt", pre, r)
    /\ UNCHANGED pool
    /\ UNCHANGED gwVars
    /\ UNCHANGED execVars
    /\ UNCHANGED callerVars

\* brisa.go:198-243  Session.Data; the transport ends the transaction.
Data(s) ==
    /\ sess[s].phase = "open"
    /\ sess[s].fromOK
    /\ sess[s].rcptOK
    /\ LET c == sess[s].ctx
           r == DataOf(RouterOf(s), ctxs[c])
       IN /\ ctxs' = [ctxs EXCEPT ![c] = r.ctx]
          /\ sess' = [sess EXCEPT ![s].fromOK = FALSE, ![s].rcptOK = FALSE]
          /\ last' = Returned(s, "Data", ctxs[c], r)
    /\ UNCHANGED pool
    /\ UNCHANGED gwVars
    /\ UNCHANGED execVars
    /\ UNCHANGED callerVars

\* brisa.go:246-255  Session.Reset
Reset(s) ==
    /\ sess[s].phase = "open"
    /\ LET c == sess[s].ctx IN
       /\ ctxs' = [ctxs EXCEPT ![c] = resetMailTransaction(@)]
       /\ last' = [NoCallback EXCEPT !.s = s, !.op = "Reset",
                                      !.pre = ctxs[c]]
    /\ sess' = [sess EXCEPT ![s].fromOK = FALSE, ![s].rcptOK = FALSE,
                             ![s].accepted = << >>]
    /\ UNCHANGED pool
    /\ UNCHANGED gwVars
    /\ UNCHANGED execVars
    /\ UNCHANGED callerVars

\* brisa.go:258-265 and context.go:86-89  Session.Logout: FreeContext
Logout(s) ==
    /\ sess[s].phase = "open"
    /\ LET c == sess[s].ctx IN
       /\ ctxs' = [ctxs EXCEPT ![c] = ResetCtx(@)]
       /\ pool' = pool \cup {c}
       /\ last' = [NoCallback EXCEPT !.s = s, !.op = "Logout",
                                      !.pre = ctxs[c],
                                      !.hooks = SessionHook(observers,
                                                            "session-end")]
    /\ sess' = [sess EXCEPT ![s] = [NoSession EXCEPT !.phase = "closed"]]
    /\ UNCHANGED gwVars
    /\ UNCHANGED execVars
    /\ UNCHANGED callerVars

\* What the transport engine declares.
Senders == {"alice"}
Recipients == {"good", "bad"}

(***************************************************************************)
(* SpecSession: conversations against one published Router.  The caller   *)
(* has built a Router of at most MaxUnits units and UpdateRouter has       *)
(* published it; the transport engine then drives conversations, one at a  *)
(* time.                                                                   *)
(***************************************************************************)
\* The units the caller binds, by the kind of chain: a unit of a stage chain
\* decides (or validates the recipient), a unit of a disposition chain
\* carries the decision out or fails, a unit of the reject chain is a hook.
StageChains == {ChainConn, ChainMailFrom, ChainRcptTo, ChainData}
DispositionChains == {ChainDeliver, ChainQuarantine, ChainDiscard}

StageHandlers ==
    {"Reject", "Quarantine", "Discard", "panic", "panicSMTP", "RejectBadRcpt"}
DispositionHandlers == {"Pass", "Reject", "panic"}
RejectHandlers == {"Deliver", "Reject", "panic"}

SessBindings ==
    {<<c, Middleware(h, 0)>> : c \in StageChains, h \in StageHandlers}
    \cup {<<ChainData, Middleware(h, 0)>> :
              h \in {"Zero", "Both", "ReadAll", "ReadSome"}}
    \cup {<<c, Middleware(h, 0)>> :
              c \in DispositionChains, h \in DispositionHandlers}
    \cup {<<ChainReject, Middleware(h, 0)>> : h \in RejectHandlers}

\* The Routers that at most n calls of Use build.
RECURSIVE RoutersUpTo(_, _)
RoutersUpTo(bindings, n) ==
    IF n = 0 THEN {EmptyRouter}
    ELSE LET prev == RoutersUpTo(bindings, n - 1)
         IN prev \cup {Use(R, b[1], <<b[2]>>) : R \in prev, b \in bindings}

SessionInit ==
    /\ \E R \in RoutersUpTo(SessBindings, MaxUnits) :
          heap = <<EmptyRouter, R, Clone(R)>>
    /\ slot = 3
    /\ table = 2
    /\ pub = [p \in Publishers |-> IdlePub]
    /\ pubLog = <<[addr |-> 3, given |-> heap[2]]>>
    /\ retMax = 1
    /\ observers = << >>
    /\ SessionsInit
    /\ ExecIdle
    /\ RegIdle
    /\ MemIdle
    /\ FactoryIdle
    /\ LockIdle

SessionNext ==
    \E s \in {1} :
        \/ NewSessionBegin(s)
        \/ NewSessionLoad(s)
        \/ \E from \in Senders : Mail(s, from)
        \/ \E to \in Recipients : Rcpt(s, to)
        \/ Data(s)
        \/ Reset(s)
        \/ Logout(s)

SpecSession == SessionInit /\ [][SessionNext]_vars

(***************************************************************************)
(* SpecPool: conversations one after another and side by side against one  *)
(* published Router, their Contexts coming from and going back to           *)
(* contextPool (context.go:72-89).  Units of the Router refuse the          *)
(* connection, write the value store and decide on the message, so a        *)
(* Context reaches the pool used.                                           *)
(***************************************************************************)
MaxConversations == 2

PoolBindings ==
    {<<ChainConn, Middleware("Reject", 0)>>,
     <<ChainMailFrom, Middleware("Set", 0)>>,
     <<ChainData, Middleware("Quarantine", 0)>>}

PoolInit ==
    /\ \E R \in RoutersUpTo(PoolBindings, MaxUnits) :
          heap = <<EmptyRouter, R, Clone(R)>>
    /\ slot = 3
    /\ table = 2
    /\ pub = [p \in Publishers |-> IdlePub]
    /\ pubLog = <<[addr |-> 3, given |-> heap[2]]>>
    /\ retMax = 1
    /\ observers = << >>
    /\ sess = [s \in 1..MaxConversations |-> NoSession]
    /\ ctxs = << >>
    /\ pool = {}
    /\ last = NoCallback
    /\ ExecIdle
    /\ RegIdle
    /\ MemIdle
    /\ FactoryIdle
    /\ LockIdle

PoolNext ==
    \E s \in 1..MaxConversations :
        \/ NewSessionBegin(s)
        \/ NewSessionLoad(s)
        \/ \E from \in Senders : Mail(s, from)
        \/ Rcpt(s, "good")
        \/ Data(s)
        \/ Reset(s)
        \/ Logout(s)

SpecPool == PoolInit /\ [][PoolNext]_vars

(***************************************************************************)
(* SpecObserve: one conversation against one published Router, with the    *)
(* observers New was given (brisa.go:108-116).  An observer is a recorder: *)
(* it keeps what it is called with and touches nothing.                    *)
(***************************************************************************)
MaxObservers == 2

ObserverIds == <<"o1", "o2", "o3">>

ObsBindings ==
    {<<ChainConn, Middleware("Reject", 0)>>,
     <<ChainMailFrom, Middleware("Pass", 0)>>,
     <<ChainMailFrom, Middleware("panic", 0)>>,
     <<ChainData, Middleware("Reject", 0)>>,
     <<ChainData, Middleware("Quarantine", 0)>>,
     <<ChainQuarantine, Middleware("Pass", 0)>>,
     <<ChainReject, Middleware("Deliver", 0)>>}

ObserveInit ==
    /\ \E R \in RoutersUpTo(ObsBindings, MaxUnits) :
          heap = <<EmptyRouter, R, Clone(R)>>
    /\ slot = 3
    /\ table = 2
    /\ pub = [p \in Publishers |-> IdlePub]
    /\ pubLog = <<[addr |-> 3, given |-> heap[2]]>>
    /\ retMax = 1
    /\ \E n \in 0..MaxObservers : observers = SubSeq(ObserverIds, 1, n)
    /\ SessionsInit
    /\ ExecIdle
    /\ RegIdle
    /\ MemIdle
    /\ FactoryIdle
    /\ LockIdle

SpecObserve == ObserveInit /\ [][SessionNext]_vars

\* SpecLife: the same, to its end.  A NewSession call that has its Context
\* runs on to its return, and the transport engine calls Logout on every
\* Session it was given, when the connection closes.
SpecLife ==
    /\ ObserveInit
    /\ [][SessionNext]_vars
    /\ WF_vars(NewSessionLoad(1))
    /\ WF_vars(Logout(1))

(***************************************************************************)
(* SpecBody: conversations against a Router whose body chain holds up to   *)
(* MaxBody units with skip masks: explicit (IgnoreDeliver), the default    *)
(* value (DefaultIgnoreFlags) and none (0, which Router.Use stores as it   *)
(* is).  A unit of the sender chain may leave a Quarantine behind.          *)
(***************************************************************************)
MaxBody == 3

BodyBindings ==
    {<<ChainData, Middleware(h, f)>> :
         h \in {"Deliver", "Quarantine"},
         f \in {0, IgnoreDeliver, DefaultIgnoreFlags}}
    \cup {<<ChainMailFrom, Middleware("Quarantine", DefaultIgnoreFlags)>>,
          <<ChainDeliver, Middleware("Pass", 0)>>,
          <<ChainQuarantine, Middleware("Pass", 0)>>}

BodyInit ==
    /\ \E R \in RoutersUpTo(BodyBindings, MaxBody) :
          heap = <<EmptyRouter, R, Clone(R)>>
    /\ slot = 3
    /\ table = 2
    /\ pub = [p \in Publishers |-> IdlePub]
    /\ pubLog = <<[addr |-> 3, given |-> heap[2]]>>
    /\ retMax = 1
    /\ observers = << >>
    /\ SessionsInit
    /\ ExecIdle
    /\ RegIdle
    /\ MemIdle
    /\ FactoryIdle
    /\ LockIdle

SpecBody == BodyInit /\ [][SessionNext]_vars

(***************************************************************************)
(* Spec: hot reload during a conversation.  The caller keeps appending to  *)
(* its own Router and publishes it, step by step, while the transport      *)
(* engine drives one conversation through its callbacks.                   *)
(***************************************************************************)
GwBindings ==
    {<<ChainData, Middleware("Quarantine", 0)>>,
     <<ChainQuarantine, Middleware("Reject", 0)>>,
     <<ChainReject, Middleware("Deliver", 0)>>}

Init ==
    /\ GatewayInit
    /\ SessionsInit
    /\ ExecIdle
    /\ RegIdle
    /\ MemIdle
    /\ FactoryIdle
    /\ LockIdle

Next ==
    \/ CallerUse(GwBindings)
    \/ \E p \in {"p1"} :
          \/ UpdateRouterClone(p)
          \/ UpdateRouterStore(p)
          \/ UpdateRouterReturn(p)
    \/ \E s \in {1} :
          \/ NewSessionBegin(s)
          \/ NewSessionLoad(s)
          \/ \E from \in Senders : Mail(s, from)
          \/ \E to \in {"good"} : Rcpt(s, to)
          \/ Data(s)
          \/ Reset(s)
          \/ Logout(s)

Spec == Init /\ [][Next]_vars

(***************************************************************************)
(* SpecPublish: concurrent UpdateRouter calls from two goroutines of the   *)
(* caller, the caller's appends, and conversations being accepted.         *)
(***************************************************************************)
PubBindings ==
    {<<ChainConn, Middleware("Pass", 0)>>,
     <<ChainData, Middleware("Quarantine", 0)>>}

PublishNext ==
    \/ CallerUse(PubBindings)
    \/ \E p \in Publishers :
          \/ UpdateRouterClone(p)
          \/ UpdateRouterStore(p)
          \/ UpdateRouterReturn(p)
    \/ \E s \in 1..MaxSessions :
          \/ NewSessionBegin(s)
          \/ NewSessionLoad(s)

SpecPublish == Init /\ [][PublishNext]_vars

(***************************************************************************)
(* SpecExec: MiddlewareChain.Execute on every chain of at most MaxLen      *)
(* units and every status a Context can carry into the call.               *)
(***************************************************************************)
ExecMasks == {0, Pass, Reject, IgnoreDeliver, DefaultIgnoreFlags}
ExecHandlers ==
    Handlers \ {"panicSMTP", "Both", "RejectBadRcpt", "ReadAll", "ReadSome",
                "Set"}
ExecUnits == {Middleware(h, f) : h \in ExecHandlers, f \in ExecMasks}
ExecStatuses == {0, Pass, Reject, Deliver, Quarantine, Discard,
                 BitOr(Deliver, Quarantine)}

ChainsUpTo(units, n) == UNION {[1..k -> units] : k \in 0..n}

ExecInit ==
    /\ mc \in ChainsUpTo(ExecUnits, MaxLen)
    /\ st \in ExecStatuses
    /\ st0 = st
    /\ epc = "call"
    /\ ret = NoResult
    /\ GatewayInit
    /\ SessionsInit
    /\ RegIdle
    /\ MemIdle
    /\ FactoryIdle
    /\ LockIdle

\* One call chain.Execute(ctx).
CallExecute ==
    /\ epc = "call"
    /\ epc' = "done"
    /\ ret' = Execute(mc, [NewCtx EXCEPT !.Action = st])
    /\ st' = ret'.status
    /\ UNCHANGED <<mc, st0>>
    /\ UNCHANGED gwVars
    /\ UNCHANGED sessVars
    /\ UNCHANGED callerVars

ExecNext == CallExecute

SpecExec == ExecInit /\ [][ExecNext]_vars

(***************************************************************************)
(* SpecRegister: the caller builds its configuration, by Router.Use, by    *)
(* the per-stage binders of Router, and by MiddlewareChains.Register, at   *)
(* most MaxUnits units in all.                                             *)
(***************************************************************************)
\* brisa.go:46-83  OnConn .. OnDiscard: r.Use(<the stage>, m...)
On(R, chainName, ms) == Use(R, chainName, ms)

\* middleware.go:197-202  MiddlewareChains.Register, on the chains map C
Register(C, chainName, m) ==
    LET stored == IF m.IgnoreFlags = 0
                  THEN [m EXCEPT !.IgnoreFlags = DefaultIgnoreFlags]
                  ELSE m
    IN UseOne(C, chainName, stored)

\* The chain bound to chainName in R; a missing entry reads as nil.
ChainOf(R, chainName) == IF chainName \in DOMAIN R THEN R[chainName] ELSE << >>

RegMasks == {0, Pass, IgnoreDeliver, DefaultIgnoreFlags}
RegUnits == {Middleware(h, f) : h \in {"Pass", "Deliver"}, f \in RegMasks}
RegChains == {ChainConn, ChainData}

\* The argument lists of one call: one unit, or two.
RegArgs == {<<m>> : m \in RegUnits}
           \cup {<<m1, m2>> : m1 \in RegUnits, m2 \in RegUnits}

Registration(via, chainName, given, prior) ==
    [via |-> via, chainName |-> chainName, given |-> given, prior |-> prior]

RegBudget(n) == Size(heap[table]) + Size(chains) + n <= MaxUnits

RouterUse ==
    \E c \in RegChains, ms \in RegArgs :
        /\ epc = "idle"
        /\ RegBudget(Len(ms))
        /\ UseCall(c, ms)
        /\ reg' = Registration("Use", c, ms, ChainOf(heap[table], c))

RouterOn ==
    \E c \in RegChains, ms \in RegArgs :
        /\ epc = "idle"
        /\ RegBudget(Len(ms))
        /\ heap' = [heap EXCEPT ![table] = On(@, c, ms)]
        /\ reg' = Registration("On", c, ms, ChainOf(heap[table], c))
        /\ UNCHANGED <<slot, table, pub, pubLog, retMax, observers>>
        /\ UNCHANGED sessVars
        /\ UNCHANGED execVars
        /\ UNCHANGED chains
        /\ UNCHANGED memVars
        /\ UNCHANGED facVars
        /\ UNCHANGED lockVars

ChainsRegister ==
    \E c \in RegChains, m \in RegUnits :
        /\ epc = "idle"
        /\ RegBudget(1)
        /\ chains' = Register(chains, c, m)
        /\ reg' = Registration("Register", c, <<m>>, ChainOf(chains, c))
        /\ UNCHANGED gwVars
        /\ UNCHANGED sessVars
        /\ UNCHANGED execVars
        /\ UNCHANGED memVars
        /\ UNCHANGED facVars
        /\ UNCHANGED lockVars

\* The chain the registration made last has stored its units in.
StoredChain ==
    IF reg.via = "Register" THEN ChainOf(chains, reg.chainName)
    ELSE ChainOf(heap[table], reg.chainName)

\* The units the registration made last has stored, in stored order.
StoredUnits == SubSeq(StoredChain, Len(reg.prior) + 1, Len(StoredChain))

\* The configuration built, the chain registered last is executed once:
\* chain.Execute(ctx), with the status the Context then has.
ExecuteStored ==
    /\ epc = "idle"
    /\ reg.via # "none"
    /\ \E s \in {Pass, Deliver} :
          /\ mc' = StoredChain
          /\ st0' = s
          /\ ret' = Execute(StoredChain, [NewCtx EXCEPT !.Action = s])
          /\ st' = ret'.status
          /\ epc' = "done"
    /\ UNCHANGED gwVars
    /\ UNCHANGED sessVars
    /\ UNCHANGED callerVars

RegisterNext == RouterUse \/ RouterOn \/ ChainsRegister \/ ExecuteStored

SpecRegister == Init /\ [][RegisterNext]_vars

(***************************************************************************)
(* SpecClone: Router.Use and Router.Clone on Routers in memory.  A chain   *)
(* is a Go slice: a header (array, len, cap) over a backing array that     *)
(* other headers may share.  The caller makes a Router, appends to it,     *)
(* clones it once, and goes on appending to both.                          *)
(***************************************************************************)
\* The zero Middleware, as make() fills a new array with.
ZeroUnit == Middleware(Nil, 0)

Slice(arr, len, cap) == [arr |-> arr, len |-> len, cap |-> cap]

\* The nil slice a missing map key reads as.
NilSlice == Slice(0, 0, 0)

\* The elements of the slice h over the arrays A, and the chains of a map.
Elems(A, h) == [i \in 1..h.len |-> A[h.arr][i]]
Contents(A, M) == [c \in DOMAIN M |-> Elems(A, M[c])]

\* brisa.go:40  append(chain, *m): in place if the capacity allows it, else
\* into a new array; spare is the capacity the runtime adds beyond need.
AppendSlice(A, h, m, spare) ==
    IF h.len < h.cap
    THEN [arrs |-> [A EXCEPT ![h.arr][h.len + 1] = m],
          slice |-> Slice(h.arr, h.len + 1, h.cap)]
    ELSE LET ncap == h.len + 1 + spare
             new == [i \in 1..ncap |->
                        IF i <= h.len THEN A[h.arr][i]
                        ELSE IF i = h.len + 1 THEN m ELSE ZeroUnit]
         IN [arrs |-> Append(A, new),
             slice |-> Slice(Len(A) + 1, h.len + 1, ncap)]

\* brisa.go:93-95  chainCopy := make(MiddlewareChain, len, cap); copy(...)
CloneChain_Shared(A, h) == [arrs |-> A, slice |-> h]

CloneChain(A, h) ==
    LET new == [i \in 1..h.cap |->
                   IF i <= h.len THEN A[h.arr][i] ELSE ZeroUnit]
    IN [arrs |-> Append(A, new), slice |-> Slice(Len(A) + 1, h.len, h.cap)]

\* brisa.go:90-97  the loop of Clone over the chains cs of the map M; done
\* is the new map so far.
RECURSIVE CloneOver(_, _, _, _)
CloneOver(A, M, cs, done) ==
    IF cs = {} THEN [arrs |-> A, map |-> done]
    ELSE LET c == CHOOSE x \in cs : TRUE
             r == CloneChain(A, M[c])
         IN CloneOver(r.arrs, M, cs \ {c}, Bind(done, c, r.slice))

CloneUnits == {Middleware("Pass", 0), Middleware("Reject", 0)}
CloneChains == {ChainConn, ChainData}

\* brisa.go:38-43  Use(c, m) on the Router at address r
MemUse(r) ==
    /\ Size(abs[r]) < MaxUnits
    /\ \E c \in CloneChains, m \in CloneUnits, spare \in 0..1 :
          LET h == IF c \in DOMAIN maps[r] THEN maps[r][c] ELSE NilSlice
              res == AppendSlice(arrs, h, m, spare)
          IN /\ arrs' = res.arrs
             /\ maps' = [maps EXCEPT ![r] = Bind(@, c, res.slice)]
             /\ abs' = [abs EXCEPT ![r] = Use(@, c, <<m>>)]
    /\ UNCHANGED <<chains, reg>>
    /\ UNCHANGED facVars
    /\ UNCHANGED lockVars
    /\ UNCHANGED gwVars
    /\ UNCHANGED sessVars
    /\ UNCHANGED execVars

\* brisa.go:89-98  clonedRouter := originalRouter.Clone()
MemClone ==
    /\ Len(maps) = 1
    /\ LET res == CloneOver(arrs, maps[1], DOMAIN maps[1], EmptyRouter)
       IN /\ arrs' = res.arrs
          /\ maps' = Append(maps, res.map)
    /\ abs' = Append(abs, Clone(abs[1]))
    /\ UNCHANGED <<chains, reg>>
    /\ UNCHANGED facVars
    /\ UNCHANGED lockVars
    /\ UNCHANGED gwVars
    /\ UNCHANGED sessVars
    /\ UNCHANGED execVars

CloneNext ==
    \/ \E r \in 1..Len(maps) : MemUse(r)
    \/ MemClone

SpecClone == Init /\ [][CloneNext]_vars

(***************************************************************************)
(* SpecFactory: the goroutines of the caller register constructors with    *)
(* the MiddlewareFactory (middleware.go:54-143) and with the Registry      *)
(* (part_008:9-43) and create units by name, MaxCalls calls in all.  A     *)
(* call on the MiddlewareFactory takes its lock, runs its body and         *)
(* releases the lock in its deferred Unlock; a Registry.Register holds the *)
(* Registry's own lock from its first statement to its last.               *)
(***************************************************************************)
MaxCalls == 3

FactoryNames == {"a", "b"}

\* The constructors the caller registers: as mockMiddlewareFactoryFunc
\* (middleware_test.go:190-200) one that returns a unit of mask Pass and one
\* that returns an error, and one that panics (brisa_test.go:143-155).
Constructors == {"ok", "fail", "panic"}

Constructed(ctor) == Middleware("Pass", Pass)

\* The ignore_flags entry of a config, by the Go type of its value.
Config(type, value) == [type |-> type, value |-> value]

Configs ==
    {NoConfig, Config("int", IgnoreDeliver), Config("int64", IgnoreDeliver),
     Config("float64", IgnoreQuarantine), Config("string", 0)}

Put(r, name, ctor) ==
    [n \in DOMAIN r \cup {name} |-> IF n = name THEN ctor ELSE r[n]]

\* middleware.go:78  if _, exists := f.registry[name]; exists
Exists_Never(r, name) == FALSE

Exists(r, name) == name \in DOMAIN r

\* middleware.go:78-83  the body of MiddlewareFactory.Register
RegisterIn(r, name, ctor) ==
    IF Exists(r, name)
    THEN [registry |-> r, err |-> "already exists"]
    ELSE [registry |-> Put(r, name, ctor), err |-> Nil]

\* part_008:29-32  the body of Registry.Register: r.factories[name] = factory
RegistryRegisterIn(f, name, ctor) == Put(f, name, ctor)

\* middleware.go:118-128  the type switch on config["ignore_flags"]
Override_AnyInteger(mask, config) ==
    IF config.type \in {"int", "int64", "float64"} THEN config.value
    ELSE mask

Override(mask, config) ==
    IF config.type \in {"int", "float64"} THEN config.value ELSE mask

\* middleware.go:105-130  the body of MiddlewareFactory.Create.  There is
\* no recover in it: a panic of the constructor leaves Create as a panic.
CreateIn(r, name, config) ==
    IF ~Exists(r, name)
    THEN [unit |-> NoUnit, err |-> "does not exist", panicked |-> FALSE]
    ELSE CASE r[name] = "panic" ->
                [unit |-> NoUnit, err |-> Nil, panicked |-> TRUE]
           [] r[name] = "fail" ->
                [unit |-> NoUnit, err |-> "error creating middleware",
                 panicked |-> FALSE]
           [] OTHER ->
                [unit |-> [Constructed(r[name]) EXCEPT
                              !.IgnoreFlags = Override(@, config)],
                 err |-> Nil, panicked |-> FALSE]

\* A goroutine calls f.Register(name, ctor) or f.Create(name, config).
FactoryCall(g) ==
    /\ calls[g].pc \in {"idle", "returned"}
    /\ ncalls < MaxCalls
    /\ \/ \E n \in FactoryNames, c \in Constructors :
             calls' = [calls EXCEPT ![g] =
                 [NoCall EXCEPT !.op = "Register", !.name = n, !.ctor = c,
                                !.pc = "called",
                                !.fresh = ~Exists(registry, n)]]
       \/ \E n \in FactoryNames, cfg \in Configs :
             calls' = [calls EXCEPT ![g] =
                 [NoCall EXCEPT !.op = "Create", !.name = n, !.config = cfg,
                                !.pc = "called",
                                !.fresh = ~Exists(registry, n)]]
    /\ ncalls' = ncalls + 1
    /\ UNCHANGED <<registry, factories, mu>>

\* middleware.go:75  f.mu.Lock()
RegisterLock(g) ==
    /\ calls[g].pc = "called" /\ calls[g].op = "Register"
    /\ mu.w = Nil /\ mu.r = {}
    /\ mu' = [mu EXCEPT !.w = g]
    /\ calls' = [calls EXCEPT ![g].pc = "locked"]
    /\ UNCHANGED <<registry, factories, ncalls>>

\* middleware.go:77-83
RegisterBody(g) ==
    /\ calls[g].pc = "locked" /\ calls[g].op = "Register"
    /\ LET out == RegisterIn(registry, calls[g].name, calls[g].ctor)
       IN /\ registry' = out.registry
          /\ calls' = [calls EXCEPT ![g].pc = "leaving",
                                     ![g].before = registry,
                                     ![g].after = out.registry,
                                     ![g].res.err = out.err]
    /\ UNCHANGED <<factories, mu, ncalls>>

\* middleware.go:103  f.mu.RLock()
CreateRLock(g) ==
    /\ calls[g].pc = "called" /\ calls[g].op = "Create"
    /\ mu.w = Nil
    /\ mu' = [mu EXCEPT !.r = @ \cup {g}]
    /\ calls' = [calls EXCEPT ![g].pc = "locked"]
    /\ UNCHANGED <<registry, factories, ncalls>>

\* middleware.go:105-130
CreateBody(g) ==
    /\ calls[g].pc = "locked" /\ calls[g].op = "Create"
    /\ calls' = [calls EXCEPT ![g].pc = "leaving",
                               ![g].before = registry,
                               ![g].after = registry,
                               ![g].res = CreateIn(registry, calls[g].name,
                                                   calls[g].config)]
    /\ UNCHANGED <<registry, factories, mu, ncalls>>

\* middleware.go:76, 104  the deferred Unlock/RUnlock, which runs when the
\* call returns and when a panic unwinds it.
FactoryLeave(g) ==
    /\ calls[g].pc = "leaving"
    /\ mu' = [w |-> IF mu.w = g THEN Nil ELSE mu.w, r |-> mu.r \ {g}]
    /\ calls' = [calls EXCEPT ![g].pc = "returned"]
    /\ UNCHANGED <<registry, factories, ncalls>>

\* part_008:25-33  Registry.Register(name, factory), under r.mu from its
\* first statement to its last; it returns nothing.
RegistryRegister(g) ==
    /\ calls[g].pc \in {"idle", "returned"}
    /\ ncalls < MaxCalls
    /\ \E n \in FactoryNames, c \in Constructors :
          /\ factories' = RegistryRegisterIn(factories, n, c)
          /\ calls' = [calls EXCEPT ![g] =
                 [NoCall EXCEPT !.op = "Registry.Register", !.name = n,
                                !.ctor = c, !.pc = "returned",
                                !.fresh = ~Exists(factories, n),
                                !.before = factories,
                                !.after = factories']]
    /\ ncalls' = ncalls + 1
    /\ UNCHANGED <<registry, mu>>

FactoryNext ==
    /\ \E g \in Goroutines :
          \/ FactoryCall(g)
          \/ RegisterLock(g)
          \/ RegisterBody(g)
          \/ CreateRLock(g)
          \/ CreateBody(g)
          \/ FactoryLeave(g)
          \/ RegistryRegister(g)
    /\ UNCHANGED <<chains, reg>>
    /\ UNCHANGED memVars
    /\ UNCHANGED gwVars
    /\ UNCHANGED sessVars
    /\ UNCHANGED execVars
    /\ UNCHANGED lockVars

SpecFactory == Init /\ [][FactoryNext]_vars

(***************************************************************************)
(* SpecLock: the accesses to the status field and to the value store of   *)
(* one Context, from NewContext to FreeContext, by the goroutine of its    *)
(* conversation and by instrumentation that reads it on its own.  An       *)
(* access is taken apart: the call, the lock if the code takes one, the    *)
(* access itself from its beginning to its end, the unlock.                *)
(***************************************************************************)
MaxAccesses == 4

\* The accesses of the conversation's goroutine while the Context is in
\* use, and those of the instrumentation.  The status has no accessor: it
\* is read as the field ctx.Action.
SessionOps == {"Skip", "Unit", "Coerce", "MarkReject", "Set", "Get"}
ObserverOps == {"Get", "ReadAction"}

\* The field an access touches and whether it writes it.
Field(op) ==
    IF op \in {"Set", "Get", "Reset.keys"} THEN "keys" ELSE "Action"

IsWrite(op) == op \notin {"Skip", "Get", "ReadAction"}

\* The lock the code takes around the access: context.go:51 and 35 Lock,
\* context.go:63 RLock; none at context.go:32 and 81, middleware.go:167 and
\* 171, brisa.go:215-216 and 289.
Guard(op) ==
    CASE op \in {"Set", "Reset.keys"} -> "Lock"
      [] op = "Get" -> "RLock"
      [] OTHER -> "none"

\* The other goroutines that are in the middle of writing that field.
Writing(t, field) ==
    {u \in Threads \ {t} :
        /\ acc[u].pc = "accessing"
        /\ Field(acc[u].op) = field
        /\ IsWrite(acc[u].op)}

\* context.go:79-83  NewContext: the Context is handed out, Action = Pass.
ContextNew ==
    /\ clife.stage = "none"
    /\ ctxs' = <<NewCtx>>
    /\ clife' = [stage |-> "live", n |-> 0]
    /\ UNCHANGED <<cmu, acc>>

\* A goroutine starts on an access.  A unit returns one of the decisions.
AccessCall(t) ==
    /\ clife.stage = "live"
    /\ acc[t].pc = "idle"
    /\ clife.n < MaxAccesses
    /\ \E op \in IF t = "session" THEN SessionOps ELSE ObserverOps :
          \E a \in IF op = "Unit" THEN {Deliver, Quarantine} ELSE {0} :
              acc' = [acc EXCEPT ![t] = [NoAccess EXCEPT !.op = op,
                                                        !.pc = "called",
                                                        !.value = a]]
    /\ clife' = [clife EXCEPT !.n = @ + 1]
    /\ UNCHANGED <<cmu, ctxs>>

\* context.go:85-89, 29-32  FreeContext: Reset starts with c.Action = Pass.
ContextFree ==
    /\ clife.stage = "live"
    /\ acc["session"].pc = "idle"
    /\ acc' = [acc EXCEPT !["session"] =
                  [NoAccess EXCEPT !.op = "Reset.Action", !.pc = "called"]]
    /\ clife' = [clife EXCEPT !.stage = "resetting"]
    /\ UNCHANGED <<cmu, ctxs>>

\* c.mu.Lock() or c.mu.RLock(), where the code has one
AccessLock(t) ==
    /\ acc[t].pc = "called"
    /\ \/ /\ Guard(acc[t].op) = "Lock"
          /\ cmu.w = Nil /\ cmu.r = {}
          /\ cmu' = [cmu EXCEPT !.w = t]
       \/ /\ Guard(acc[t].op) = "RLock"
          /\ cmu.w = Nil
          /\ cmu' = [cmu EXCEPT !.r = @ \cup {t}]
    /\ acc' = [acc EXCEPT ![t].pc = "locked"]
    /\ UNCHANGED <<ctxs, clife>>

\* The access begins: the field is being read or written from here on.
AccessBegin(t) ==
    /\ \/ acc[t].pc = "locked"
       \/ acc[t].pc = "called" /\ Guard(acc[t].op) = "none"
    /\ acc' = [acc EXCEPT ![t].pc = "accessing"]
    /\ UNCHANGED <<cmu, ctxs, clife>>

\* What a write leaves in the Context.
Written(c, op, a) ==
    CASE op = "Unit" -> [c EXCEPT !.Action = a]
      [] op = "Coerce" -> [c EXCEPT !.Action = Coerce(@)]
      [] op = "MarkReject" -> [c EXCEPT !.Action = Reject]
      [] op = "Reset.Action" -> [c EXCEPT !.Action = Pass]
      [] op = "Set" -> [c EXCEPT !.keys = @ \cup {"k"}]
      [] op = "Reset.keys" -> [c EXCEPT !.keys = {}]
      [] OTHER -> c

\* The access ends.  A read of the status that another goroutine is in the
\* middle of writing is a data race: it yields the old value or the new.
AccessEnd(t) ==
    /\ acc[t].pc = "accessing"
    /\ ctxs' = [ctxs EXCEPT ![1] = Written(@, acc[t].op, acc[t].value)]
    /\ \E v \in {ctxs[1].Action}
                 \cup {Written(ctxs[1], acc[u].op, acc[u].value).Action :
                          u \in Writing(t, "Action")} :
          acc' = [acc EXCEPT
                     ![t].seen = IF Field(acc[t].op) = "Action"
                                    /\ ~IsWrite(acc[t].op)
                                 THEN v ELSE 0,
                     ![t].pc = IF Guard(acc[t].op) = "none"
                               THEN "done" ELSE "leaving"]
    /\ UNCHANGED <<cmu, clife>>

\* c.mu.Unlock() or c.mu.RUnlock()
AccessUnlock(t) ==
    /\ acc[t].pc = "leaving"
    /\ cmu' = [w |-> IF cmu.w = t THEN Nil ELSE cmu.w, r |-> cmu.r \ {t}]
    /\ acc' = [acc EXCEPT ![t].pc = "done"]
    /\ UNCHANGED <<ctxs, clife>>

\* The access has returned.  Reset goes on to c.keys = nil under the lock
\* (context.go:35-37), after which the Context lies in the pool.
AccessReturn(t) ==
    /\ acc[t].pc = "done"
    /\ \/ /\ acc[t].op = "Reset.Action"
          /\ acc' = [acc EXCEPT ![t] = [NoAccess EXCEPT !.op = "Reset.keys",
                                                        !.pc = "called"]]
          /\ UNCHANGED clife
       \/ /\ acc[t].op = "Reset.keys"
          /\ acc' = [acc EXCEPT ![t] = NoAccess]
          /\ clife' = [clife EXCEPT !.stage = "freed"]
       \/ /\ acc[t].op \notin {"Reset.Action", "Reset.keys"}
          /\ acc' = [acc EXCEPT ![t].pc = "idle"]
          /\ UNCHANGED clife
    /\ UNCHANGED <<cmu, ctxs>>

LockNext ==
    /\ \/ ContextNew
       \/ ContextFree
       \/ \E t \in Threads :
             \/ AccessCall(t)
             \/ AccessLock(t)
             \/ AccessBegin(t)
             \/ AccessEnd(t)
             \/ AccessUnlock(t)
             \/ AccessReturn(t)
    /\ UNCHANGED <<sess, pool, last>>
    /\ UNCHANGED gwVars
    /\ UNCHANGED execVars
    /\ UNCHANGED <<chains, reg>>
    /\ UNCHANGED memVars
    /\ UNCHANGED facVars

SpecLock == Init /\ [][LockNext]_vars

(***************************************************************************)
(* Properties of hot reload.                                               *)
(***************************************************************************)
\* What a callback does, given the Router it looks its chains up in.
Outcome(R, rid, op, pre) ==
    CASE op = "NewSession" -> executeIn(R, rid, pre, ChainConn)
      [] op = "Mail" -> executeIn(R, rid, pre, ChainMailFrom)
      [] op = "Rcpt" -> executeIn(R, rid, pre, ChainRcptTo)
      [] op = "Data" -> DataIn(R, rid, pre)

StageOps == {"NewSession", "Mail", "Rcpt", "Data"}

\* C2 (Spec): every stage callback of a session looks up every chain it
\* runs, the disposition and reject chains included, in the Router that
\* NewSession loaded for that session, as that Router was then, whatever
\* UpdateRouter calls and appends of the caller have happened since.
C2_SnapshotIsolation ==
    last.op \in StageOps =>
        LET s == last.s
            want == Outcome(sess[s].snapshot, AddrOf(sess[s].loadVer),
                            last.op, last.pre)
        IN /\ sess[s].router = AddrOf(sess[s].loadVer)
           /\ \A k \in 1..Len(last.runs) :
                 /\ last.runs[k].router = AddrOf(sess[s].loadVer)
                 /\ last.runs[k].chain \in DOMAIN sess[s].snapshot
           /\ last.runs = want.runs
           /\ last.err = want.err

\* Session 1 took the Router with only the data chain [Quarantine]; a
\* Router that also binds the quarantine chain to a rejecting unit has been
\* stored since; Data ran the data chain alone and succeeded.
C2_Witness ==
    /\ last.op = "Data"
    /\ sess[1].phase = "open"
    /\ slot # sess[1].router
    /\ DOMAIN sess[1].snapshot = {ChainData}
    /\ ChainQuarantine \in DOMAIN heap[slot]
    /\ Len(last.runs) = 1
    /\ last.runs[1].chain = ChainData
    /\ last.err = NilSMTP

\* C3 (SpecPublish): the Router in the slot, and so the Router every
\* session created afterwards gets, has the stages and the units the
\* caller's Router had when UpdateRouter was given it, whatever the caller
\* has appended to its Router since.
C3_PublishCopies ==
    /\ \A k \in 1..Len(pubLog) : heap[pubLog[k].addr] = pubLog[k].given
    /\ \A s \in 1..MaxSessions :
          (sess[s].phase \in {"open", "refused"} /\ sess[s].loadVer > 0) =>
              /\ DOMAIN sess[s].snapshot = DOMAIN pubLog[sess[s].loadVer].given
              /\ sess[s].snapshot = pubLog[sess[s].loadVer].given

\* A session accepted after an UpdateRouter call returned holds the Router
\* as published, while the caller's Router has grown since.
C3_Witness ==
    \E s \in 1..MaxSessions :
        /\ sess[s].phase = "open"
        /\ sess[s].beginRet > 0
        /\ sess[s].loadVer = sess[s].beginRet
        /\ sess[s].snapshot = pubLog[sess[s].loadVer].given
        /\ Size(heap[table]) > Size(sess[s].snapshot)
        /\ DOMAIN heap[table] # DOMAIN sess[s].snapshot

\* C4 (SpecPublish): a session whose NewSession call began after an
\* UpdateRouter call had returned holds the Router of that call's store or
\* of a later store, never of an earlier one.
C4_PublishVisible ==
    \A s \in 1..MaxSessions :
        sess[s].phase \in {"open", "refused"} =>
            /\ sess[s].loadVer >= sess[s].beginRet
            /\ sess[s].router = AddrOf(sess[s].loadVer)
            /\ sess[s].snapshot = heap[AddrOf(sess[s].loadVer)]

\* NewSession began after the first UpdateRouter had returned, and loaded
\* after a second one had stored.
C4_Witness ==
    \E s \in 1..MaxSessions :
        /\ sess[s].phase = "open"
        /\ sess[s].beginRet = 1
        /\ sess[s].loadVer = 2
        /\ sess[s].router = pubLog[2].addr

(***************************************************************************)
(* Properties of the Session callbacks, checked under SpecSession.         *)
(***************************************************************************)
\* The stage chain a callback runs first.
StageOf(op) ==
    CASE op = "NewSession" -> ChainConn
      [] op = "Mail" -> ChainMailFrom
      [] op = "Rcpt" -> ChainRcptTo
      [] op = "Data" -> ChainData

\* A chain ended in Reject or in a fault.
Failed(res) == res.err # NoError \/ res.action = Reject

\* The Router R with chain c unbound.
Without(R, c) == [k \in DOMAIN R \ {c} |-> R[k]]

\* The runs of the last callback that follow its stage chain's run.
AfterStage ==
    IF last.runs # << >> /\ last.runs[1].chain = StageOf(last.op)
    THEN SubSeq(last.runs, 2, Len(last.runs))
    ELSE last.runs

\* C7 (SpecSession): when Data's body chain has not ended in Reject or a
\* fault, a status of Pass counts as Deliver, and of the deliver,
\* quarantine and discard chains only the one matching the status is
\* dispatched, once, with the Context holding that status: Deliver -> the
\* deliver chain, Quarantine -> the quarantine chain, Discard -> the
\* discard chain.
C7_DispositionDispatch ==
    last.op = "Data" =>
        LET R == sess[last.s].snapshot
            bound == ChainData \in DOMAIN R
            S == IF bound THEN last.runs[1].res.status ELSE last.pre.Action
            S1 == IF S = Pass THEN Deliver ELSE S
            want == CASE S1 = Deliver -> ChainDeliver
                      [] S1 = Quarantine -> ChainQuarantine
                      [] S1 = Discard -> ChainDiscard
                      [] OTHER -> Nil
            rest == AfterStage
            hits == {k \in DOMAIN rest : rest[k].chain \in DispositionChains}
        IN (bound => ~Failed(last.runs[1].res)) =>
              /\ \A k \in hits : rest[k].chain = want
              /\ IF want \in DOMAIN R
                 THEN /\ hits = {1}
                      /\ rest[1].before.Action = S1
                      /\ rest[1].res = Execute(R[want], rest[1].before)
                 ELSE rest = << >>

\* The body chain returned Pass; the deliver chain ran with status Deliver.
C7_Witness ==
    /\ last.op = "Data"
    /\ Len(last.runs) = 2
    /\ last.runs[1].chain = ChainData
    /\ last.runs[1].res.action = Pass
    /\ last.runs[1].res.err = NoError
    /\ last.runs[2].chain = ChainDeliver
    /\ last.runs[2].before.Action = Deliver
    /\ last.err = NilSMTP

\* What Session.execute returns for a chain result.
Classified(res) ==
    IF res.err # NoError
    THEN IF res.err.wraps # NilSMTP THEN res.err.wraps
         ELSE SMTPError(451, <<4, 3, 0>>)
    ELSE IF res.action = Reject THEN SMTPError(554, <<5, 7, 1>>)
    ELSE NilSMTP

\* What Data returns once its body chain has succeeded with status S.
Dispatched(R, S, rest) ==
    LET S1 == IF S = Pass THEN Deliver ELSE S IN
    CASE S1 = Deliver ->
            IF ChainDeliver \in DOMAIN R
            THEN Classified(rest[1].res) ELSE NilSMTP
      [] S1 = Quarantine ->
            IF ChainQuarantine \in DOMAIN R
            THEN Classified(rest[1].res) ELSE NilSMTP
      [] S1 = Discard -> NilSMTP
      [] OTHER -> SMTPError(554, <<5, 3, 5>>)

\* C8 (SpecSession), as amended: a stage chain that ends in Reject without
\* error makes its callback return 554 5.7.1; one that ends with an error
\* wrapping an SMTP error makes it return that SMTP error; one that ends
\* with any other error (a recovered panic) makes it return 451 4.3.0; one
\* that ends otherwise makes NewSession, Mail and Rcpt return success, and
\* makes Data go on to the disposition dispatch and return its outcome.
C8_Classification ==
    (last.op \in StageOps /\ StageOf(last.op) \in DOMAIN sess[last.s].snapshot)
    => LET res == last.runs[1].res IN
       /\ last.runs[1].chain = StageOf(last.op)
       /\ (res.err = NoError /\ res.action = Reject) =>
              last.err = SMTPError(554, <<5, 7, 1>>)
       /\ (res.err # NoError /\ res.err.wraps # NilSMTP) =>
              last.err = res.err.wraps
       /\ (res.err # NoError /\ res.err.wraps = NilSMTP) =>
              last.err = SMTPError(451, <<4, 3, 0>>)
       /\ ~Failed(res) =>
              IF last.op = "Data"
              THEN last.err = Dispatched(sess[last.s].snapshot, res.status,
                                         AfterStage)
              ELSE last.err = NilSMTP

\* C8 as stated: the same, but every stage callback, Data too, returns
\* success when its stage chain ends without Reject and without error.
C8_AsStated ==
    (last.op \in StageOps /\ StageOf(last.op) \in DOMAIN sess[last.s].snapshot)
    => LET res == last.runs[1].res IN
       /\ (res.err = NoError /\ res.action = Reject) =>
              last.err = SMTPError(554, <<5, 7, 1>>)
       /\ (res.err # NoError /\ res.err.wraps # NilSMTP) =>
              last.err = res.err.wraps
       /\ (res.err # NoError /\ res.err.wraps = NilSMTP) =>
              last.err = SMTPError(451, <<4, 3, 0>>)
       /\ ~Failed(res) => last.err = NilSMTP

\* The body chain ended in Quarantine without error, the quarantine chain
\* rejected, and Data returned 554 5.7.1.
C8_Witness ==
    /\ last.op = "Data"
    /\ Len(last.runs) = 2
    /\ last.runs[1].chain = ChainData
    /\ last.runs[1].res.action = Quarantine
    /\ last.runs[1].res.err = NoError
    /\ last.runs[2].chain = ChainQuarantine
    /\ last.runs[2].res.action = Reject
    /\ last.err = SMTPError(554, <<5, 7, 1>>)

\* C9 (SpecSession): if the conn chain of the Router NewSession loaded
\* ends in Reject or a fault, NewSession returns an error and no Session,
\* and no Mail, Rcpt or Data follows in that conversation; if the conn
\* chain is unbound or ends otherwise, NewSession returns a Session and no
\* error.
C9_ConnRefusal ==
    /\ last.op = "NewSession" =>
          LET s == last.s
              R == sess[s].snapshot
              refused == /\ ChainConn \in DOMAIN R
                         /\ Failed(Execute(R[ChainConn], last.pre))
          IN IF refused
             THEN last.err # NilSMTP /\ sess[s].phase = "refused"
             ELSE last.err = NilSMTP /\ sess[s].phase = "open"
    /\ last.op \in {"Mail", "Rcpt", "Data", "Reset", "Logout"} =>
          \A s \in 1..MaxSessions : sess[s].phase # "refused"
    /\ \A s \in 1..MaxSessions :
          sess[s].phase = "refused" =>
              last.op = "NewSession" /\ last.s = s /\ last.err # NilSMTP

\* The conn chain rejected: NewSession returned 554 5.7.1 and no Session,
\* although the Router binds a sender chain.
C9_Witness ==
    /\ last.op = "NewSession"
    /\ sess[1].phase = "refused"
    /\ Len(last.runs) = 1
    /\ last.runs[1].chain = ChainConn
    /\ last.runs[1].res.action = Reject
    /\ last.runs[1].res.err = NoError
    /\ last.err = ErrRejectedByPolicy
    /\ ChainMailFrom \in DOMAIN sess[1].snapshot

\* C10 (SpecSession): when a chain a callback runs ends in Reject or a
\* fault and the session's Router binds the reject chain, the reject chain
\* is run next, with status Reject, before the callback returns; and what
\* the callback returns is what it would return were the reject chain
\* unbound, whatever the reject chain's units return or panic with.
C10_RejectChainInert ==
    last.op \in StageOps =>
        LET s == last.s
            R == sess[s].snapshot
            bare == Outcome(Without(R, ChainReject), sess[s].router,
                            last.op, last.pre)
        IN /\ last.err = bare.err
           /\ ChainReject \in DOMAIN R =>
                 \A k \in 1..Len(last.runs) :
                    (last.runs[k].chain # ChainReject
                     /\ Failed(last.runs[k].res)) =>
                        /\ k < Len(last.runs)
                        /\ last.runs[k + 1].chain = ChainReject
                        /\ last.runs[k + 1].before.Action = Reject
                        /\ last.runs[k + 1].res =
                              Execute(R[ChainReject], last.runs[k + 1].before)

\* The sender chain rejected, the reject chain ran and panicked, and Mail
\* returned 554 5.7.1.
C10_Witness ==
    /\ last.op = "Mail"
    /\ Len(last.runs) = 2
    /\ last.runs[1].chain = ChainMailFrom
    /\ last.runs[1].res.action = Reject
    /\ last.runs[1].res.err = NoError
    /\ last.runs[2].chain = ChainReject
    /\ last.runs[2].res.err # NoError
    /\ last.err = ErrRejectedByPolicy

\* C11 (SpecSession): when the deliver or the quarantine chain that Data
\* dispatched ends in Reject or a fault, Data returns the classified error
\* of that result (554 5.7.1 for Reject, 451 4.3.0 for a fault); when the
\* discard chain does, Data returns success.
C11_DispositionFailure ==
    (last.op = "Data" /\ AfterStage # << >>
     /\ AfterStage[1].chain \in DispositionChains
     /\ Failed(AfterStage[1].res))
    => LET run == AfterStage[1] IN
       IF run.chain = ChainDiscard
       THEN last.err = NilSMTP
       ELSE /\ last.err # NilSMTP
            /\ last.err = IF run.res.err # NoError
                          THEN SMTPError(451, <<4, 3, 0>>)
                          ELSE SMTPError(554, <<5, 7, 1>>)

\* The body chain decided Discard, the discard chain panicked, and Data
\* returned success.
C11_Witness ==
    /\ last.op = "Data"
    /\ Len(last.runs) = 2
    /\ last.runs[1].chain = ChainData
    /\ last.runs[1].res.action = Discard
    /\ last.runs[2].chain = ChainDiscard
    /\ last.runs[2].res.err # NoError
    /\ last.err = NilSMTP

\* C12 (SpecSession): when Data's body chain has not failed and the
\* status, with Pass counted as Deliver, is none of Deliver, Quarantine and
\* Discard (a Reject left by an earlier rejected command, zero, two bits),
\* Data returns 554 5.3.5 and runs no deliver, quarantine or discard chain.
C12_InvalidAction ==
    last.op = "Data" =>
        LET R == sess[last.s].snapshot
            bound == ChainData \in DOMAIN R
            S == IF bound THEN last.runs[1].res.status ELSE last.pre.Action
        IN ((bound => ~Failed(last.runs[1].res))
            /\ S \notin {Pass, Deliver, Quarantine, Discard})
           => /\ last.err = SMTPError(554, <<5, 3, 5>>)
              /\ AfterStage = << >>
              /\ \A k \in 1..Len(last.runs) :
                    last.runs[k].chain \notin DispositionChains

\* The recipient declared last was rejected, the Router binds no body
\* chain, and Data found the status still Reject.
C12_Witness ==
    /\ last.op = "Data"
    /\ last.pre.Action = Reject
    /\ ChainData \notin DOMAIN sess[last.s].snapshot
    /\ DispositionChains \cap DOMAIN sess[last.s].snapshot # {}
    /\ last.runs = << >>
    /\ last.err = ErrInvalidAction

\* C13 (SpecSession), as stated: a stage callback of a session whose Router
\* has no entry for the stage returns the same result, and leaves the same
\* Context status, as it does on that Router with the stage bound to a
\* chain of no units, whatever status earlier commands have left.
C13_UnboundIsEmpty ==
    (last.op \in StageOps
     /\ StageOf(last.op) \notin DOMAIN sess[last.s].snapshot)
    => LET s == last.s
           R == sess[s].snapshot
           empty == Outcome(Bind(R, StageOf(last.op), << >>), sess[s].router,
                            last.op, last.pre)
       IN /\ last.err = empty.err
          /\ ctxs[sess[s].ctx].Action = empty.ctx.Action

\* A Mail on an unbound sender stage returned success with the status a
\* rejected recipient had left at Reject; a sender stage bound to a chain of
\* no units would have made it return 554 5.7.1.
C13_Witness ==
    /\ last.op = "Mail"
    /\ ChainMailFrom \notin DOMAIN sess[last.s].snapshot
    /\ last.pre.Action = Reject
    /\ last.err = NilSMTP
    /\ Outcome(Bind(sess[last.s].snapshot, ChainMailFrom, << >>),
               sess[last.s].router, "Mail", last.pre).err = ErrRejectedByPolicy

\* C17 (SpecSession), as stated: when the stage chain of a callback has
\* ended in Reject or a fault, the Context status is Reject when the
\* callback returns, whatever the units of the reject chain returned.
C17_RejectKept ==
    (last.op \in StageOps /\ last.runs # << >>
     /\ last.runs[1].chain = StageOf(last.op)
     /\ Failed(last.runs[1].res))
    => ctxs[sess[last.s].ctx].Action = Reject

\* The sender chain rejected, a unit of the reject chain returned Deliver,
\* and Mail returned 554 5.7.1 with the Context status Deliver.
C17_Witness ==
    /\ last.op = "Mail"
    /\ Len(last.runs) = 2
    /\ last.runs[1].chain = ChainMailFrom
    /\ last.runs[1].res.action = Reject
    /\ last.runs[2].chain = ChainReject
    /\ last.runs[2].before.Action = Reject
    /\ last.runs[2].res.action = Deliver
    /\ last.err = ErrRejectedByPolicy
    /\ ctxs[sess[last.s].ctx].Action = Deliver

\* C20 (SpecSession): whichever way Data returns, with success, after a
\* Reject or a fault of the body chain, with the error of a disposition
\* chain or with 554 5.3.5, the body stream has been read to its end when
\* it returns, whether the units read all of it, part of it or nothing.
C20_Drained ==
    last.op = "Data" => ctxs[sess[last.s].ctx].Reader = "drained"

\* The body chain read part of the stream and then panicked: Data returned
\* 451 4.3.0 and the stream is read to its end.
C20_Witness ==
    /\ last.op = "Data"
    /\ Len(last.runs) = 1
    /\ sess[last.s].snapshot[ChainData]
          = <<Middleware("ReadSome", 0), Middleware("panic", 0)>>
    /\ last.runs[1].res.err # NoError
    /\ last.err = ErrInternalServer
    /\ ctxs[sess[last.s].ctx].Reader = "drained"

\* C24 (SpecSession): in a conversation whose Session loaded a Router that
\* binds no chain, every stage callback returns nil and runs no chain, so
\* no unit is invoked, and the Context status after each Data is Deliver.
C24_EmptyTable ==
    (/\ last.op \in StageOps
     /\ DOMAIN heap[sess[last.s].router] = {}) =>
        /\ last.err = NilSMTP
        /\ last.runs = << >>
        /\ sess[last.s].phase = "open"
        /\ last.op = "Data" => ctxs[sess[last.s].ctx].Action = Deliver

\* The Data of a second transaction over the empty Router: the status it
\* found was the Deliver of the first, and it returned nil with Deliver.
C24_Witness ==
    /\ last.op = "Data"
    /\ heap[sess[last.s].router] = EmptyRouter
    /\ last.pre.Action = Deliver
    /\ last.err = NilSMTP
    /\ ctxs[sess[last.s].ctx].Action = Deliver

(***************************************************************************)
(* Properties of the observers, checked under SpecObserve.                 *)
(***************************************************************************)
\* The positions in the events of the last callback of the events of one
\* kind an observer got for one chain, and of the units of one chain.
HookAt(kind, o, c) ==
    {i \in 1..Len(last.hooks) :
        /\ last.hooks[i].kind = kind
        /\ last.hooks[i].o = o
        /\ last.hooks[i].chain = c}

UnitsAt(c) ==
    {i \in 1..Len(last.hooks) :
        last.hooks[i].kind = "unit" /\ last.hooks[i].chain = c}

\* C25 (SpecObserve): for every chain a callback ran through
\* Session.execute, each observer got exactly one chain-start for it, before
\* every unit of the chain the loop reached, and exactly one chain-end for
\* it, after every such unit, whether the chain ended in Reject, in a panic
\* or neither; and what the callback returned and the chains and units it
\* ran are what the Router alone determines.
C25_HooksBracket ==
    last.op \in StageOps =>
        /\ \A k \in 1..Len(last.runs), j \in 1..Len(observers) :
              LET run == last.runs[k]
                  o == observers[j]
              IN run.chain \in StageChains \cup DispositionChains =>
                    /\ Cardinality(HookAt("chain-start", o, run.chain)) = 1
                    /\ Cardinality(HookAt("chain-end", o, run.chain)) = 1
                    /\ Cardinality(UnitsAt(run.chain)) = Len(run.res.steps)
                    /\ \A a \in HookAt("chain-start", o, run.chain),
                          z \in HookAt("chain-end", o, run.chain),
                          u \in UnitsAt(run.chain) : a < u /\ u < z
                    /\ \A a \in HookAt("chain-start", o, run.chain),
                          z \in HookAt("chain-end", o, run.chain) : a < z
        /\ LET rid == sess[last.s].router
               out == Outcome(heap[rid], rid, last.op, last.pre)
           IN /\ last.err = out.err
              /\ Len(last.runs) = Len(out.runs)
              /\ \A k \in 1..Len(last.runs) :
                    /\ last.runs[k].chain = out.runs[k].chain
                    /\ last.runs[k].res = out.runs[k].res

\* A Mail with two observers whose sender chain panicked and whose reject
\* chain then ran: start, start, unit, end, end, and the unit of the reject
\* chain after them.
C25_Witness ==
    /\ last.op = "Mail"
    /\ observers = <<"o1", "o2">>
    /\ Len(last.runs) = 2
    /\ last.runs[1].res.err # NoError
    /\ last.err = ErrInternalServer
    /\ Len(last.hooks) = 6
    /\ last.hooks[1] = Event("chain-start", "o1", ChainMailFrom, 0)
    /\ last.hooks[2] = Event("chain-start", "o2", ChainMailFrom, 0)
    /\ last.hooks[3] = Event("unit", Nil, ChainMailFrom, 1)
    /\ last.hooks[4] = Event("chain-end", "o1", ChainMailFrom, 0)
    /\ last.hooks[5] = Event("chain-end", "o2", ChainMailFrom, 0)
    /\ last.hooks[6] = Event("unit", Nil, ChainReject, 1)

(***************************************************************************)
(* Properties of the Context life cycle, checked under SpecPool.           *)
(***************************************************************************)
\* C21 (SpecPool): a Reset callback leaves the sender, its options, the
\* recipients, their options and the body stream of the Context cleared and
\* its logger the session's; the Context status and value store are what
\* they were before, and the Session keeps its Router and stays open.
C21_ResetFrame ==
    [][(last'.op = "Reset" /\ last' # last) =>
          LET s == last'.s
              c == sess[s].ctx
          IN /\ ctxs'[c].From = "" /\ ctxs'[c].FromOptions = Nil
             /\ ctxs'[c].To = << >> /\ ctxs'[c].ToOptions = << >>
             /\ ctxs'[c].Reader = Nil
             /\ ctxs'[c].Logger = "session"
             /\ ctxs'[c].Action = ctxs[c].Action
             /\ ctxs'[c].keys = ctxs[c].keys
             /\ ctxs'[c].Session = ctxs[c].Session
             /\ sess'[s].ctx = c
             /\ sess'[s].router = sess[s].router
             /\ sess'[s].snapshot = sess[s].snapshot
             /\ sess[s].phase = "open" /\ sess'[s].phase = "open"
             /\ heap' = heap]_vars

\* A Reset after a quarantined message whose sender stage wrote the store:
\* every transaction field was set, the status and the store were not the
\* initial ones, and the Reset cleared the former and kept the latter.
C21_Witness ==
    /\ last.op = "Reset"
    /\ last.pre.From # "" /\ last.pre.FromOptions # Nil
    /\ last.pre.To # << >> /\ last.pre.ToOptions # << >>
    /\ last.pre.Reader = "drained"
    /\ last.pre.Logger = "mail"
    /\ last.pre.Action = Quarantine
    /\ last.pre.keys = {"k"}
    /\ LET c == ctxs[sess[last.s].ctx]
       IN /\ c.To = << >> /\ c.Reader = Nil /\ c.Logger = "session"
          /\ c.Action = Quarantine /\ c.keys = {"k"}

\* C22 (SpecPool): the Context NewSession gets from NewContext, new or out
\* of the pool, has status Pass, no sender, no recipients, no body stream
\* and an empty value store; so has every Context lying in the pool.
C22_PooledClean ==
    /\ \A s \in 1..MaxConversations :
          sess[s].phase = "begun" =>
             LET c == ctxs[sess[s].ctx]
             IN /\ c.Action = Pass
                /\ c.From = "" /\ c.FromOptions = Nil
                /\ c.To = << >> /\ c.ToOptions = << >>
                /\ c.Reader = Nil
                /\ c.keys = {}
                /\ c.Session = 0
    /\ \A c \in pool : [ctxs[c] EXCEPT !.Action = Pass] = NewCtx

\* A conversation that wrote the store, quarantined a message and logged
\* out; the next conversation has been handed the same Context.
C22_Witness ==
    \E s, t \in 1..MaxConversations :
        /\ sess[s].phase = "closed"
        /\ last.op = "Logout" /\ last.s = s
        /\ last.pre.keys = {"k"}
        /\ last.pre.Action = Quarantine
        /\ last.pre.To # << >>
        /\ last.pre.Reader = "drained"
        /\ sess[t].phase = "begun"
        /\ Len(ctxs) = 1
        /\ sess[t].ctx = 1
        /\ ctxs[1].keys = {}

(***************************************************************************)
(* Properties of the factories, checked under SpecFactory.                 *)
(***************************************************************************)
\* The goroutines whose call of one kind has run its body.
Ended(op) ==
    {g \in Goroutines :
        calls[g].op = op /\ calls[g].pc \in {"leaving", "returned"}}

Succeeded(g) == calls[g].res.err = Nil /\ ~calls[g].res.panicked

\* C26 (SpecFactory), for the MiddlewareFactory: a Register of a name that
\* is registered returns an error and leaves the registry as it was, and of
\* two Register calls made for one name while it was not registered exactly
\* one returns no error.
C26_FactoryRejects ==
    /\ \A g \in Ended("Register") :
          calls[g].name \in DOMAIN calls[g].before =>
             /\ calls[g].res.err # Nil
             /\ calls[g].after = calls[g].before
    /\ \A g, h \in Ended("Register") :
          (/\ g # h
           /\ calls[g].name = calls[h].name
           /\ calls[g].fresh /\ calls[h].fresh) =>
             Succeeded(g) # Succeeded(h)

\* C26 (SpecFactory), as stated, for either registry of the repository: the
\* same of MiddlewareFactory.Register and of Registry.Register.
C26_DuplicateRejected ==
    \A op \in {"Register", "Registry.Register"} :
        /\ \A g \in Ended(op) :
              calls[g].name \in DOMAIN calls[g].before =>
                 /\ calls[g].res.err # Nil
                 /\ calls[g].after = calls[g].before
        /\ \A g, h \in Ended(op) :
              (/\ g # h
               /\ calls[g].name = calls[h].name
               /\ calls[g].fresh /\ calls[h].fresh) =>
                 Succeeded(g) # Succeeded(h)

\* Two goroutines called MiddlewareFactory.Register for one name while it
\* was not registered, with different constructors: the second one to get
\* the lock found the name and left the first one's constructor in place.
C26_Witness ==
    /\ calls["g1"].op = "Register" /\ calls["g2"].op = "Register"
    /\ calls["g1"].pc = "returned" /\ calls["g2"].pc = "returned"
    /\ calls["g1"].name = calls["g2"].name
    /\ calls["g1"].ctor # calls["g2"].ctor
    /\ calls["g1"].fresh /\ calls["g2"].fresh
    /\ calls["g1"].res.err = Nil
    /\ calls["g2"].res.err # Nil
    /\ registry[calls["g1"].name] = calls["g1"].ctor

\* C27 (SpecFactory), as stated: a Create of a name whose constructor
\* panics ends by returning an error and no unit, not by a panic, and holds
\* the lock no longer.
C27_FaultContained ==
    \A g \in Goroutines :
        (/\ calls[g].op = "Create" /\ calls[g].pc = "returned"
         /\ calls[g].name \in DOMAIN calls[g].before
         /\ calls[g].before[calls[g].name] = "panic") =>
            /\ ~calls[g].res.panicked
            /\ calls[g].res.err # Nil
            /\ calls[g].res.unit = NoUnit
            /\ g \notin mu.r

\* C27 (SpecFactory), the part the deferred RUnlock gives: a call that has
\* ended, by a return or by a panic, holds the lock no longer.
C27_LockReleased ==
    \A g \in Goroutines :
        calls[g].pc \in {"idle", "called", "returned"} =>
            g \notin mu.r /\ mu.w # g

\* A Create of a panicking constructor has ended in the panic, nobody
\* holds the lock, and the other goroutine has registered a name since.
C27_Witness ==
    \E g, h \in Goroutines :
        /\ calls[g].op = "Create" /\ calls[g].pc = "returned"
        /\ calls[g].res.panicked
        /\ mu = [w |-> Nil, r |-> {}]
        /\ calls[h].op = "Register" /\ calls[h].pc = "returned"
        /\ calls[h].res.err = Nil
        /\ calls[h].before = calls[g].before

\* Whether a Create found a constructor that returned a unit.
Built(g) ==
    /\ calls[g].op = "Create" /\ calls[g].pc = "returned"
    /\ calls[g].name \in DOMAIN calls[g].before
    /\ calls[g].before[calls[g].name] = "ok"

\* C28 (SpecFactory), as stated: with an ignore_flags entry whose value is
\* an integer the unit Create returns has that mask; with none, or one
\* that is no number, it has the constructor's mask; and a Create of a
\* name not registered, or whose constructor returns an error, returns an
\* error and no unit.
C28_MaskOverride ==
    \A g \in Goroutines :
        /\ (Built(g) /\ calls[g].config.type \in {"int", "int64", "float64"})
              => /\ calls[g].res.err = Nil
                 /\ calls[g].res.unit.IgnoreFlags = calls[g].config.value
        /\ (Built(g) /\ calls[g].config.type \in {"absent", "string"})
              => /\ calls[g].res.err = Nil
                 /\ calls[g].res.unit.IgnoreFlags = Pass
        /\ (/\ calls[g].op = "Create" /\ calls[g].pc = "returned"
            /\ \/ calls[g].name \notin DOMAIN calls[g].before
               \/ calls[g].before[calls[g].name] = "fail")
              => calls[g].res.err # Nil /\ calls[g].res.unit = NoUnit

\* C28 (SpecFactory), as the type switch has it: a value of Go type int or
\* float64 becomes the mask; with no entry, or a value of any other type,
\* integer types such as int64 included, the constructor's mask stays.
C28_IntOrFloat64 ==
    \A g \in Goroutines :
        /\ (Built(g) /\ calls[g].config.type \in {"int", "float64"})
              => /\ calls[g].res.err = Nil
                 /\ calls[g].res.unit.IgnoreFlags = calls[g].config.value
        /\ (Built(g) /\ calls[g].config.type \in {"absent", "string", "int64"})
              => /\ calls[g].res.err = Nil
                 /\ calls[g].res.unit.IgnoreFlags = Pass
        /\ (/\ calls[g].op = "Create" /\ calls[g].pc = "returned"
            /\ \/ calls[g].name \notin DOMAIN calls[g].before
               \/ calls[g].before[calls[g].name] = "fail")
              => calls[g].res.err # Nil /\ calls[g].res.unit = NoUnit

\* A Create with ignore_flags: int64(IgnoreDeliver) has returned the unit
\* with the mask Pass its constructor gave it.
C28_Witness ==
    \E g \in Goroutines :
        /\ Built(g)
        /\ calls[g].config = Config("int64", IgnoreDeliver)
        /\ calls[g].res.err = Nil
        /\ calls[g].res.unit.IgnoreFlags = Pass

(***************************************************************************)
(* Properties of registration, checked under SpecRegister.                 *)
(***************************************************************************)
\* C14 (SpecRegister), as stated: by whatever entry point a unit is bound,
\* Router.Use, a per-stage binder or MiddlewareChains.Register, it is
\* stored with the default mask Deliver | Quarantine if it was given with
\* mask zero, and with the mask it was given otherwise.
C14_DefaultMaskSubstituted ==
    reg.via # "none" =>
        /\ Len(StoredUnits) = Len(reg.given)
        /\ \A k \in 1..Len(reg.given) :
              /\ StoredUnits[k].Handler = reg.given[k].Handler
              /\ StoredUnits[k].IgnoreFlags =
                    IF reg.given[k].IgnoreFlags = 0
                    THEN BitOr(Deliver, Quarantine)
                    ELSE reg.given[k].IgnoreFlags

\* Router.Use was given a unit with mask zero and has stored it with mask
\* zero.
C14_Witness ==
    /\ reg.via = "Use"
    /\ reg.given[1].IgnoreFlags = 0
    /\ StoredUnits[1].IgnoreFlags = 0

(***************************************************************************)
(* Properties of Router.Clone, checked under SpecClone.                    *)
(***************************************************************************)
\* C18 (SpecClone): the clone has the stages and the unit sequences the
\* source had when it was cloned, and from then on the chains of each of
\* the two Routers are what that Router had at the clone plus what has
\* been appended to itself: appends to the source, to an existing or a new
\* stage, leave the clone's chains alone, and the other way round.
C18_CloneIndependent ==
    \A r \in 1..Len(maps) :
        /\ DOMAIN maps[r] = DOMAIN abs[r]
        /\ Contents(arrs, maps[r]) = abs[r]

\* After the clone the source got a second unit in the conn chain and the
\* clone another one, in place in arrays with spare capacity, and each
\* Router holds its own.
C18_Witness ==
    /\ Len(maps) = 2
    /\ DOMAIN maps[1] = {ChainConn}
    /\ DOMAIN maps[2] = {ChainConn}
    /\ maps[1][ChainConn].cap = 2
    /\ maps[2][ChainConn].cap = 2
    /\ Elems(arrs, maps[1][ChainConn])
          = <<Middleware("Pass", 0), Middleware("Pass", 0)>>
    /\ Elems(arrs, maps[2][ChainConn])
          = <<Middleware("Pass", 0), Middleware("Reject", 0)>>

(***************************************************************************)
(* Properties of MiddlewareChain.Execute, checked under SpecExec.          *)
(***************************************************************************)
\* The set of bits of a non-negative int below 2^6.
Bits(n) == {b \in 0..5 : (n \div (2 ^ b)) % 2 = 1}

Overlap(m, s) == Bits(m) \cap Bits(s) # {}

\* The steps of the finished call.
Steps == 1..Len(ret.steps)
UnitAt(k) == mc[ret.steps[k].idx]
Invoked == {ret.steps[k].idx : k \in {j \in Steps : ret.steps[j].invoked}}

\* C1: if an invoked unit's handler panics, Execute does not let the panic
\* reach its caller; it returns Reject with a non-nil error, and no unit
\* positioned after the faulting unit is invoked.
C1_PanicContained ==
    epc = "done" =>
        \A k \in Steps :
            (ret.steps[k].invoked /\ Panics(UnitAt(k).Handler)) =>
                /\ ~ret.unwound
                /\ ret.action = Reject
                /\ ret.err # NoError
                /\ \A i \in Invoked : i <= ret.steps[k].idx

\* A two-unit chain whose first unit panicked and whose second unit, which
\* the status would not have skipped, was left alone.
C1_Witness ==
    /\ epc = "done"
    /\ Len(mc) = 2
    /\ Panics(mc[1].Handler)
    /\ 1 \in Invoked
    /\ ~Overlap(mc[2].IgnoreFlags, st0)
    /\ ret.action = Reject

\* C5: when an invoked unit returns Reject normally, Execute stops at that
\* unit and returns Reject with a nil error; no later unit is invoked.
C5_RejectHalts ==
    epc = "done" =>
        \A k \in Steps :
            (/\ ret.steps[k].invoked
             /\ ~Panics(UnitAt(k).Handler)
             /\ ret.steps[k].after = Reject) =>
                /\ k = Len(ret.steps)
                /\ ret.action = Reject
                /\ ret.err = NoError
                /\ ~ret.unwound
                /\ \A i \in Invoked : i <= ret.steps[k].idx

\* A two-unit chain whose first unit returned Reject; the second unit has
\* no skip mask against Reject and was still not invoked.
C5_Witness ==
    /\ epc = "done"
    /\ Len(mc) = 2
    /\ mc[1].Handler = "Reject"
    /\ 1 \in Invoked
    /\ mc[2].IgnoreFlags = 0
    /\ 2 \notin Invoked

\* C6: every unit the loop reaches, with skip mask M while the Context
\* status is S, is not invoked and leaves the status alone if M and S
\* share a bit, and is invoked if they share none.  S is the status the
\* units before it left: the pre-call status for the first unit.
C6_SkipPolicy ==
    epc = "done" =>
        /\ \A k \in Steps :
              LET s == ret.steps[k] IN
              /\ s.idx = k
              /\ s.before = (IF k = 1 THEN st0 ELSE ret.steps[k - 1].after)
              /\ Overlap(UnitAt(k).IgnoreFlags, s.before)
                    => (~s.invoked /\ s.after = s.before)
              /\ ~Overlap(UnitAt(k).IgnoreFlags, s.before) => s.invoked
        /\ st = (IF Len(ret.steps) = 0 THEN st0
                 ELSE ret.steps[Len(ret.steps)].after)

\* One execution in which the first unit ran and set Deliver, the second
\* was skipped on its Deliver mask, and the third position does not exist.
C6_Witness ==
    /\ epc = "done"
    /\ Len(mc) = 2
    /\ st0 = Pass
    /\ mc[1] = Middleware("Deliver", DefaultIgnoreFlags)
    /\ mc[2] = Middleware("Quarantine", IgnoreDeliver)
    /\ Invoked = {1}
    /\ st = Deliver

\* C15, as amended: a unit whose skip mask is exactly the Pass bit is
\* invoked when execution reaches it unless the status then has the Pass
\* bit: it is skipped, and the status left alone, when the status is Pass,
\* be it the pre-call status or one a preceding unit returned.
C15_PassMask ==
    epc = "done" =>
        \A k \in Steps :
            LET s == ret.steps[k] IN
            UnitAt(k).IgnoreFlags = Pass =>
                /\ s.invoked <=> ~(Bits(Pass) \subseteq Bits(s.before))
                /\ s.before = Pass => (~s.invoked /\ s.after = Pass)

\* C15 as stated: a unit whose skip mask is exactly the Pass bit is invoked
\* every time execution reaches it, whatever the status.
C15_AsStated ==
    epc = "done" =>
        \A k \in Steps : UnitAt(k).IgnoreFlags = Pass => ret.steps[k].invoked

\* Called with status Pass, a chain of one rejecting unit with mask Pass
\* returned Pass without invoking it.
C15_Witness ==
    /\ epc = "done"
    /\ st0 = Pass
    /\ mc = <<Middleware("Reject", Pass)>>
    /\ Invoked = {}
    /\ ret.action = Pass
    /\ ret.err = NoError

\* C16: a unit carrying the default skip mask is skipped when execution
\* reaches it with status Deliver or Quarantine, and is invoked when it
\* reaches it with status Pass, Reject or Discard; in general it is skipped
\* exactly when the status has the Deliver or the Quarantine bit.
C16_DefaultMask ==
    epc = "done" =>
        \A k \in Steps :
            LET s == ret.steps[k] IN
            UnitAt(k).IgnoreFlags = DefaultIgnoreFlags =>
                /\ s.before \in {Deliver, Quarantine} =>
                      (~s.invoked /\ s.after = s.before)
                /\ s.before \in {Pass, Reject, Discard} => s.invoked
                /\ ~s.invoked <=>
                      Bits(s.before) \cap Bits(Deliver + Quarantine) # {}

\* Called with status Discard, the first unit with the default mask ran and
\* decided Deliver; the second, with the default mask too, was skipped.
C16_Witness ==
    /\ epc = "done"
    /\ st0 = Discard
    /\ mc = <<Middleware("Deliver", DefaultIgnoreFlags),
              Middleware("Quarantine", DefaultIgnoreFlags)>>
    /\ Invoked = {1}
    /\ st = Deliver

\* C23 (SpecExec): Execute on a chain of no units returns the status the
\* Context had before the call and no error, reaches no unit and leaves
\* the Context status as it was, whatever that status is.
C23_EmptyChain ==
    (epc = "done" /\ mc = << >>) =>
        /\ ret.action = st0
        /\ ret.err = NoError
        /\ ~ret.unwound
        /\ ret.steps = << >>
        /\ st = st0

\* Execute has returned Quarantine from an empty chain entered with status
\* Quarantine.
C23_Witness ==
    /\ epc = "done"
    /\ mc = << >>
    /\ st0 = Quarantine
    /\ ret.action = Quarantine
    /\ st = Quarantine

\* C29 (SpecExec): in an execution in which no unit faults, the action
\* Execute returns and the Context status after the call both equal the
\* value returned by the last unit that was invoked, so that a later unit
\* overwrites an earlier Deliver, Quarantine or Discard; if no unit was
\* invoked they equal the status the Context had before the call.
LastInvoked == CHOOSE i \in Invoked : \A j \in Invoked : j <= i

NoFault ==
    \A k \in Steps : ret.steps[k].invoked => ~Panics(UnitAt(k).Handler)

C29_Rejudged ==
    (epc = "done" /\ NoFault) =>
        /\ ret.err = NoError
        /\ ret.action = st
        /\ st = IF Invoked = {}
                THEN st0
                ELSE Returns(mc[LastInvoked].Handler,
                             [NewCtx EXCEPT !.Action = st0])

\* The first unit returned Deliver and the second, invoked after it,
\* returned Quarantine: Execute returned Quarantine and left it as status.
C29_Witness ==
    /\ epc = "done"
    /\ Len(mc) = 2
    /\ mc[1].Handler = "Deliver"
    /\ mc[2].Handler = "Quarantine"
    /\ Invoked = {1, 2}
    /\ ret.action = Quarantine
    /\ st = Quarantine

\* C19 (SpecRegister): a registration call stores its units after the
\* units the chain already held, in argument order, and Execute reaches
\* the units of a chain in stored order: of two units invoked in one
\* execution, the one registered earlier is invoked first.
C19_UnitOrder ==
    /\ reg.via # "none" =>
          /\ Len(StoredChain) = Len(reg.prior) + Len(reg.given)
          /\ SubSeq(StoredChain, 1, Len(reg.prior)) = reg.prior
          /\ \A k \in 1..Len(reg.given) :
                StoredUnits[k].Handler = reg.given[k].Handler
          /\ reg.via # "Register" => StoredUnits = reg.given
    /\ epc = "done" =>
          /\ mc = StoredChain
          /\ \A j \in Steps, k \in Steps :
                j < k => ret.steps[j].idx < ret.steps[k].idx
          /\ \A k \in Steps : ret.steps[k].idx \in 1..Len(mc)

\* One Use call gave two units; executed, the chain invoked the first
\* argument first and then the second.
C19_Witness ==
    /\ reg.via = "Use"
    /\ reg.given = <<Middleware("Deliver", Pass), Middleware("Pass", 0)>>
    /\ epc = "done"
    /\ mc = reg.given
    /\ Len(ret.steps) = 2
    /\ ret.steps[1].idx = 1 /\ ret.steps[1].invoked
    /\ ret.steps[2].idx = 2 /\ ret.steps[2].invoked

(***************************************************************************)
(* Properties of the body stage, checked under SpecBody.                   *)
(***************************************************************************)
\* The body chain of the Router the conversation runs on, and its run in
\* the Data callback that has returned.
BodyChain == last.runs[1].chain
BodyUnits == heap[last.runs[1].router][ChainData]
BodyRun == last.runs[1].res

DataRan ==
    /\ last.op = "Data"
    /\ Len(last.runs) >= 1
    /\ BodyChain = ChainData

FirstDelivers ==
    /\ Len(BodyRun.steps) >= 1
    /\ BodyRun.steps[1].idx = 1
    /\ BodyRun.steps[1].invoked
    /\ BodyUnits[1].Handler = "Deliver"

\* The units 2..k of the body chain all carry the Deliver bit in their mask.
DeliverMasked(k) ==
    \A j \in 2..k : Overlap(BodyUnits[j].IgnoreFlags, Deliver)

Stored == {1} \cup {pubLog[v].addr : v \in 1..Len(pubLog)}

\* C31 (Spec): a Router that New or UpdateRouter has stored in the slot is
\* not changed by any step of the caller, of the Gateway or of a session:
\* its set of chains, and the units and masks of each chain, stay as they
\* were when it was stored.
C31_PublishedImmutable ==
    [][\A a \in Stored : heap'[a] = heap[a]]_vars

\* Two Routers have been stored, they differ from each other and from the
\* caller's Router, which has grown since, and a session has gone through
\* Data on one of them.
C31_Witness ==
    /\ Len(pubLog) = 2
    /\ heap[pubLog[1].addr] # heap[pubLog[2].addr]
    /\ heap[table] # heap[pubLog[2].addr]
    /\ heap[pubLog[1].addr] = pubLog[1].given
    /\ last.op = "Data"
    /\ sess[1].router \in Stored

(***************************************************************************)
(* Properties of concurrent conversations, checked under SpecPool.         *)
(***************************************************************************)
\* The sessions NewSession has made a Context for and Logout has not torn
\* down.
Live == {s \in 1..MaxConversations : sess[s].phase \in {"begun", "open"}}

\* C32 (SpecPool): no two sessions that have been created and not torn
\* down hold the same Context, no Context held by such a session lies in
\* the pool, and a step of one session (NewSession, a stage callback,
\* Reset, Logout) leaves the Context of every other such session as it
\* was: status, transaction fields and value store.
C32_Isolation ==
    [][/\ \A s, t \in Live' : s # t => sess'[s].ctx # sess'[t].ctx
       /\ \A s \in Live' : sess'[s].ctx \notin pool'
       /\ \A t \in Live \cap Live' :
             (sess'[t] = sess[t] /\ (last' = last \/ last'.s # t)) =>
                 ctxs'[sess[t].ctx] = ctxs[sess[t].ctx]]_vars

\* Two conversations are open side by side, each on a Context of its own;
\* the first has quarantined a message while the second, whose sender was
\* declared before, still has status Pass, no recipient and no body.
C32_Witness ==
    /\ sess[1].phase = "open" /\ sess[2].phase = "open"
    /\ sess[1].ctx # sess[2].ctx
    /\ last.op = "Data" /\ last.s = 1
    /\ ctxs[sess[1].ctx].Action = Quarantine
    /\ ctxs[sess[1].ctx].To # << >>
    /\ ctxs[sess[1].ctx].Reader = "drained"
    /\ ctxs[sess[2].ctx].Action = Pass
    /\ ctxs[sess[2].ctx].From = "alice"
    /\ ctxs[sess[2].ctx].To = << >>
    /\ ctxs[sess[2].ctx].Reader = Nil

(***************************************************************************)
(* Properties of the Context's lock, checked under SpecLock.               *)
(***************************************************************************)
\* The goroutine holds the lock the way its access needs it.
Holds(t) ==
    IF IsWrite(acc[t].op) THEN cmu.w = t ELSE (cmu.w = t \/ t \in cmu.r)

Accessing == {t \in Threads : acc[t].pc = "accessing"}

\* C33 (SpecLock): every read and every write of the Context's status and
\* of its value store is made with the Context's lock held (for writing by
\* a write), so the instrumentation never reads the status or the store
\* while a write of it without the lock is under way.
C33_LockDiscipline ==
    /\ \A t \in Accessing : Holds(t)
    /\ \A t, u \in Accessing :
          (t # u /\ Field(acc[t].op) = Field(acc[u].op)) =>
              (~IsWrite(acc[t].op) /\ ~IsWrite(acc[u].op))

\* The part the code keeps: every access to the value store is made with
\* the lock held, and no two goroutines are in the store at once unless
\* both read.
C33_StoreGuarded ==
    /\ \A t \in Accessing : Field(acc[t].op) = "keys" => Holds(t)
    /\ \A t, u \in Accessing :
          (t # u /\ Field(acc[t].op) = "keys" /\ Field(acc[u].op) = "keys")
              => (~IsWrite(acc[t].op) /\ ~IsWrite(acc[u].op))

\* A unit's return value is being assigned to the status with the lock
\* free while the instrumentation is reading the status.
C33_Witness ==
    /\ acc["session"].pc = "accessing"
    /\ acc["session"].op = "Unit"
    /\ acc["observer"].pc = "accessing"
    /\ acc["observer"].op = "ReadAction"
    /\ cmu = [w |-> Nil, r |-> {}]

Stops(u) ==
    Panics(u.Handler) \/ Returns(u.Handler, NewCtx) = Reject

\* The positions of a chain that the log of an execution shows invoked.
InvokedIn(res) ==
    {res.steps[k].idx : k \in {j \in 1..Len(res.steps) : res.steps[j].invoked}}

\* C35 (SpecSession): when Data dispatches the deliver chain (the body
\* stage having ended in Deliver, or in Pass, which counts as Deliver) or
\* the quarantine chain (status Quarantine), every unit bound to that chain
\* by Router.Use without a skip mask is invoked, unless a unit before it
\* in the chain returned Reject or panicked.
C35_DispositionUnitsRun ==
    last.op = "Data" =>
        \A r \in 1..Len(last.runs) :
            last.runs[r].chain \in {ChainDeliver, ChainQuarantine} =>
                LET units == sess[last.s].snapshot[last.runs[r].chain]
                IN /\ last.runs[r].before.Action =
                         (IF last.runs[r].chain = ChainDeliver
                          THEN Deliver ELSE Quarantine)
                   /\ \A i \in 1..Len(units) :
                         (\A j \in 1..(i - 1) : ~Stops(units[j])) =>
                             i \in InvokedIn(last.runs[r].res)

\* No body chain is bound, so Data counted Pass as Deliver; the deliver
\* chain holds two units given without a mask, and both were invoked.
C35_Witness ==
    /\ last.op = "Data"
    /\ Len(last.runs) = 1
    /\ last.runs[1].chain = ChainDeliver
    /\ last.runs[1].before.Action = Deliver
    /\ Len(sess[last.s].snapshot[ChainDeliver]) = 2
    /\ InvokedIn(last.runs[1].res) = {1, 2}
    /\ last.err = NilSMTP

(***************************************************************************)
(* Properties of the recipient list, checked under SpecSession.            *)
(* sess[s].accepted is history: the recipients of the transaction whose    *)
(* Rcpt callback returned success.                                         *)
(***************************************************************************)
\* C36 (SpecSession): a recipient whose recipient chain ended in Reject or
\* in a fault is not in the Context's recipient list once its Rcpt callback
\* has returned, nor are its options; and every chain Data executes, the
\* body chain and the disposition chain, sees as recipient list exactly the
\* recipients whose Rcpt callback returned success.
C36_RejectedNotRetained ==
    /\ (last.op = "Rcpt" /\ last.err # NilSMTP) =>
          LET c == ctxs[sess[last.s].ctx]
          IN /\ c.To = sess[last.s].accepted
             /\ Len(c.ToOptions) = Len(c.To)
    /\ last.op = "Data" =>
          \A r \in 1..Len(last.runs) :
              last.runs[r].chain # ChainReject =>
                  last.runs[r].before.To = sess[last.s].accepted

\* The recipient chain refused "bad" and accepted "good"; the body chain
\* then ran on a Context listing both.
C36_Witness ==
    /\ last.op = "Data"
    /\ sess[last.s].accepted = <<"good">>
    /\ Len(last.runs) >= 1
    /\ last.runs[1].chain = ChainData
    /\ last.runs[1].before.To = <<"bad", "good">>
    /\ last.runs[1].before.ToOptions = <<"opts", "opts">>

(***************************************************************************)
(* Properties of reject handling, checked under SpecSession.               *)
(***************************************************************************)
\* The positions in the callback's executions at which a chain ran.
RunsOf(cs) == {k \in 1..Len(last.runs) : last.runs[k].chain \in cs}

\* C37 (SpecSession): within one Data callback, once the deliver or the
\* quarantine chain has started executing, the reject chain is not
\* executed.
C37_DispositionExcludesReject ==
    last.op = "Data" =>
        \A j \in RunsOf({ChainDeliver, ChainQuarantine}) :
            \A k \in RunsOf({ChainReject}) : k < j

\* No body chain is bound, Data dispatched the deliver chain, its unit
\* returned Reject, and the reject chain was executed after it.
C37_Witness ==
    /\ last.op = "Data"
    /\ Len(last.runs) = 2
    /\ last.runs[1].chain = ChainDeliver
    /\ last.runs[1].res.action = Reject
    /\ last.runs[1].res.err = NoError
    /\ last.runs[2].chain = ChainReject
    /\ InvokedIn(last.runs[2].res) # {}
    /\ last.err = ErrRejectedByPolicy

(***************************************************************************)
(* Properties of the life of a conversation, checked under SpecLife.       *)
(***************************************************************************)
\* NewSession has returned for the conversation: with a Session, or with
\* the error of a connect chain that refused it.  The observers, if any,
\* were notified of session-start before the connect chain ran.
Started == sess[1].phase \in {"open", "refused"}

\* The conversation is over: the observers were notified of session-end
\* by the callback that returned last, and the Context, reset, lies in the
\* pool.
Ended_Balanced ==
    /\ sess[1].phase = "closed"
    /\ last.op = "Logout"
    /\ last.hooks = SessionHook(observers, "session-end")
    /\ pool = {1}
    /\ [ctxs[1] EXCEPT !.Action = Pass] = NewCtx

\* C38 (SpecLife): every NewSession call that notified the observers of
\* session-start, one whose connect chain refused the conversation
\* included, is followed by the session-end notification and by the reset
\* of its Context and its return to the pool.
C38_LifecycleBalanced == Started ~> Ended_Balanced

\* The part the code keeps: a conversation that was accepted ends that way.
C38_AcceptedBalanced == (sess[1].phase = "open") ~> Ended_Balanced

\* The connect chain refused the conversation after the observers were
\* notified of session-start: no Session was returned, the Context still
\* points at it and is not in the pool.
C38_Witness ==
    /\ sess[1].phase = "refused"
    /\ observers # << >>
    /\ last.op = "NewSession"
    /\ last.err # NilSMTP
    /\ SubSeq(last.hooks, 1, Len(observers))
          = SessionHook(observers, "session-start")
    /\ pool = {}
    /\ ctxs[1].Session = 1
    /\ ctxs[1].Action = Reject

(***************************************************************************)
(* Properties of the start of a transaction, checked under SpecObserve.    *)
(***************************************************************************)
\* C39 (SpecObserve): when Mail runs the sender chain, the Context's sender
\* and sender options are the ones just declared and its recipient list,
\* recipient options and body stream are empty, whatever the transaction
\* before left in them and whether or not Reset was called in between.
C39_FreshTransaction ==
    last.op = "Mail" =>
        /\ last.pre.From \in Senders
        /\ last.pre.FromOptions = "opts"
        /\ last.pre.To = << >>
        /\ last.pre.ToOptions = << >>
        /\ last.pre.Reader = Nil
        /\ \A k \in 1..Len(last.runs) :
              k = 1 => /\ last.runs[1].chain = ChainMailFrom
                       /\ last.runs[1].before = last.pre

\* Mail has run the sender chain on a Context still carrying the
\* Quarantine of the message before, whose recipients and body stream it
\* held until this Mail: they are gone.
C39_Witness ==
    /\ last.op = "Mail"
    /\ last.pre.Action = Quarantine
    /\ Len(last.runs) >= 1
    /\ last.runs[1].chain = ChainMailFrom
    /\ last.runs[1].before.From = "alice"
    /\ last.runs[1].before.To = << >>
    /\ last.runs[1].before.Reader = Nil

\* The unit invocations a callback made, over all the chains it executed.
RECURSIVE InvocationsFrom(_)
InvocationsFrom(k) ==
    IF k > Len(last.runs) THEN 0
    ELSE Cardinality(InvokedIn(last.runs[k].res)) + InvocationsFrom(k + 1)

\* C40 (SpecSession): a stage callback executes the reject chain at most
\* once; when a unit of the reject chain returns Reject or panics, that
\* execution is the last one of the callback, which returns; every
\* execution reaches each unit of its chain at most once, so the callback
\* makes no more unit invocations than its Router holds units.
C40_RejectOnce ==
    last.op \in {"NewSession", "Mail", "Rcpt", "Data"} =>
        /\ Cardinality(RunsOf({ChainReject})) <= 1
        /\ \A k \in RunsOf({ChainReject}) : k = Len(last.runs) /\ k > 1
        /\ \A k \in 1..Len(last.runs) :
              LET steps == last.runs[k].res.steps
              IN \A i, j \in 1..Len(steps) :
                    i < j => steps[i].idx < steps[j].idx
        /\ InvocationsFrom(1) <= Size(sess[last.s].snapshot)

\* A unit of the sender chain returned Reject, the reject chain was
\* executed and its unit panicked; nothing was executed after that and
\* Mail returned the policy rejection.
C40_Witness ==
    /\ last.op = "Mail"
    /\ Len(last.runs) = 2
    /\ last.runs[1].chain = ChainMailFrom
    /\ last.runs[1].res.action = Reject
    /\ last.runs[2].chain = ChainReject
    /\ last.runs[2].res.err # NoError
    /\ InvocationsFrom(1) = 2
    /\ last.err = ErrRejectedByPolicy

====
